---- MODULE Spec2Model ----
(***************************************************************************)
(* Model of pypdfcodebook's variable summaries and category frequency      *)
(* tables (class codebook, pdfcb_03c_codebook.py).                         *)
(*                                                                         *)
(* A codebook object holds a dataset (input_df) and a schema               *)
(* (datastructure).  Its table-building methods are functions of the two;  *)
(* each action below is one call of one method and leaves the returned     *)
(* table in `result`.  string_table draws its examples from Python's      *)
(* global random generator (rng), which it seeds with the object's seed;   *)
(* add_var_summary walks the schema and renders the tables into `pdf`.     *)
(*                                                                         *)
(* Cells are tagged records, so that numbers, text and the missing marker  *)
(* can sit in one column:                                                  *)
(*   [t |-> "na"]                       NaN / None                         *)
(*   [t |-> "num", whole, half]         the float whole (+ 0.5 if half)    *)
(*   [t |-> "int", n]                   an integer                         *)
(*   [t |-> "ratio", num, den]          the float num/den (NaN if den = 0) *)
(*   [t |-> "str", s]                   a text                             *)
(***************************************************************************)
EXTENDS Integers, Sequences, FiniteSets, TLC

VARIABLES
    input_df,            \* the dataset: [dtype, pop_dtype, rows]
    datastructure,       \* the schema: column name -> descriptor
    astype_str_keeps_na, \* the installed pandas: does Series.astype(str) keep NaN?
    result,              \* what the last call returned (and, for string_table,
                         \* the generator state the call found)
    seed,                \* self.seed
    rng,                 \* the state of Python's global random generator
    kept,                \* a returned table the caller has kept, or [op |-> "none"]
    pdf,                 \* the document create_codebook writes, and its progress
    projectoverview,     \* self.projectoverview: a path, or ""
    keyterms,            \* self.keyterms: a path, or ""
    footer_image_path    \* self.footer_image_path: a path, or ""

\* The three paths of a codebook.
paths == <<projectoverview, keyterms, footer_image_path>>

vars == <<input_df, datastructure, astype_str_keeps_na, result, seed, rng, kept, pdf, paths>>

\* Largest number of rows of a dataset, and of a dataset of the sample's kind.
MaxRows == 2
ExampleRows == 4
\* The number of states of the stand-in for the random generator.
RngStates == 3

----------------------------------------------------------------------------
(* Cells *)

NA == [t |-> "na"]
NumCell(w, h) == [t |-> "num", whole |-> w, half |-> h]
IntCell(n) == [t |-> "int", n |-> n]
StrCell(s) == [t |-> "str", s |-> s]

\* Texts that float() and int() accept, with their value.
NumericText == {"1"}
TextValue == [s \in NumericText |-> 1]

\* The texts that occur, in Python's order (code points: digits < upper < lower).
TextOrder == <<"0", "1", "A", "B", "None", "a", "aaa", "b", "c", "d", "e", "f",
               "g", "h", "nan">>
TextRank(s) == CHOOSE i \in DOMAIN TextOrder : TextOrder[i] = s

----------------------------------------------------------------------------
(* Arithmetic and formatting *)

RECURSIVE SumSeq(_)
SumSeq(s) == IF s = <<>> THEN 0 ELSE Head(s) + SumSeq(Tail(s))

\* Three digits, zero padded: the groups after the first of "{:,}".
Pad3(n) ==
    IF n < 10 THEN "00" \o ToString(n)
    ELSE IF n < 100 THEN "0" \o ToString(n) ELSE ToString(n)

\* "{:,}".format(n) for an integer n >= 0.
RECURSIVE FormatComma(_)
FormatComma(n) ==
    IF n < 1000 THEN ToString(n)
    ELSE FormatComma(n \div 1000) \o "," \o Pad3(n % 1000)

\* "{:,}".format(x) for a float x with an integral value: repr keeps ".0".
FormatCommaFloat(n) == FormatComma(n) \o ".0"

\* num/den rounded to the nearest integer, ties to even (num >= 0, den > 0).
RoundHalfEven(num, den) ==
    LET q == num \div den
        r == num % den
    IN  IF 2 * r < den THEN q
        ELSE IF 2 * r > den THEN q + 1
        ELSE IF q % 2 = 0 THEN q ELSE q + 1

Pad2(n) == IF n < 10 THEN "0" \o ToString(n) ELSE ToString(n)

\* The ratio formatted as "{:.2f}%" would: not scaled to a percentage.
FormatPercentUnscaled(num, den) ==
    IF den = 0 THEN "nan%"
    ELSE LET bp == RoundHalfEven(100 * num, den)
         IN  ToString(bp \div 100) \o "." \o Pad2(bp % 100) \o "%"

\* "{:.2%}".format(num/den); 0/0 is NaN in pandas and formats as "nan%".
FormatPercent(num, den) ==
    IF den = 0 THEN "nan%"
    ELSE LET bp == RoundHalfEven(10000 * num, den)
         IN  ToString(bp \div 100) \o "." \o Pad2(bp % 100) \o "%"

\* "{:,}".format(x) of a count or sum cell: an int64 value prints without a
\* decimal point, a float64 value prints Python's repr of the float.
FormatCount(c) ==
    IF c.t = "int" THEN StrCell(FormatComma(c.n))
    ELSE StrCell(FormatComma(c.whole) \o (IF c.half THEN ".5" ELSE ".0"))

\* "{:.2%}".format(x) of a ratio cell.
FormatRatio(c) == StrCell(FormatPercent(c.num, c.den))

----------------------------------------------------------------------------
(* Series.astype *)

\* float(x) succeeds on numbers, on the missing marker and on numeric text.
float_ok(c) == c.t \in {"na", "num", "int"} \/ (c.t = "str" /\ c.s \in NumericText)
astype_float(c) ==
    CASE c.t = "str" -> NumCell(TextValue[c.s], FALSE)
      [] c.t = "int" -> NumCell(c.n, FALSE)
      [] OTHER -> c

\* int(x) succeeds on finite numbers and on integer text; a float is truncated.
int_ok(c) == c.t \in {"num", "int"} \/ (c.t = "str" /\ c.s \in NumericText)
astype_int(c) ==
    CASE c.t = "str" -> IntCell(TextValue[c.s])
      [] c.t = "num" -> IntCell(c.whole)
      [] OTHER -> c

\* str(x).  Before pandas 3 the missing marker becomes the text "nan"; from
\* pandas 3 on astype(str) yields the string dtype and keeps it missing.
astype_str(c, keeps_na) ==
    CASE c.t = "str" -> c
      [] c.t = "na" -> IF keeps_na THEN NA ELSE StrCell("nan")
      [] c.t = "int" -> StrCell(ToString(c.n))
      [] c.t = "num" -> StrCell(ToString(c.whole) \o (IF c.half THEN ".5" ELSE ".0"))

----------------------------------------------------------------------------
(* DataFrames: [columns |-> <<names>>, rows |-> <<records over the names>>] *)

ColumnSet(df) == {df.columns[i] : i \in DOMAIN df.columns}
Column(df, c) == [i \in DOMAIN df.rows |-> df.rows[i][c]]

\* Order of the group keys and merge keys: numbers by value, texts as Python
\* orders them.
CodeRank(c) == IF c.t = "int" THEN c.n ELSE TextRank(c.s)

RECURSIVE SortCodes(_)
SortCodes(S) ==
    IF S = {} THEN <<>>
    ELSE LET m == CHOOSE x \in S : \A y \in S : CodeRank(x) <= CodeRank(y)
         IN  <<m>> \o SortCodes(S \ {m})

\* df.rename(columns = {old: new})
rename(df, old, new) ==
    LET nm(c) == IF c = old THEN new ELSE c
    IN  [columns |-> [i \in DOMAIN df.columns |-> nm(df.columns[i])],
         rows |-> [i \in DOMAIN df.rows |->
                     [c \in {nm(x) : x \in ColumnSet(df)} |->
                        IF c = new /\ old \in ColumnSet(df)
                        THEN df.rows[i][old] ELSE df.rows[i][c]]]]

\* df[col] = values
assign(df, col, values) ==
    [columns |-> IF col \in ColumnSet(df) THEN df.columns ELSE Append(df.columns, col),
     rows |-> [i \in DOMAIN df.rows |->
                 [c \in ColumnSet(df) \cup {col} |->
                    IF c = col THEN values[i] ELSE df.rows[i][c]]]]

\* The fill left out.
fillna_skipped(df, col, value) == df

\* df[col].fillna(value) assigned back to df[col]
fillna(df, col, value) ==
    assign(df, col, [i \in DOMAIN df.rows |->
                       IF df.rows[i][col] = NA THEN value ELSE df.rows[i][col]])

\* df[col].apply(lambda x: fmt.format(x)) assigned back to df[col], for the
\* formats "{:,}" and "{:.2%}".
apply(df, col, fmt) ==
    assign(df, col, [i \in DOMAIN df.rows |->
                       IF fmt = "{:,}" THEN FormatCount(df.rows[i][col])
                       ELSE FormatRatio(df.rows[i][col])])

\* df.dropna(subset = [col])
dropna(df, col) ==
    [df EXCEPT !.rows = SelectSeq(df.rows, LAMBDA r : r[col] # NA)]

\* The sorted distinct values of a column (the groups of a groupby).
GroupKeys(df, by) == SortCodes({df.rows[i][by] : i \in DOMAIN df.rows})

\* The table of the groups of `by` with, per group, the number of rows whose
\* col is not missing (skipna) or the number of all its rows.
GroupCounts(df, col, by, skipna) ==
    LET keys == GroupKeys(df, by)
    IN  [columns |-> <<by, col>>,
         rows |-> [k \in DOMAIN keys |->
            [c \in {by, col} |->
               IF c = by THEN keys[k]
               ELSE IntCell(Cardinality({i \in DOMAIN df.rows :
                       /\ df.rows[i][by] = keys[k]
                       /\ (skipna => df.rows[i][col] # NA)}))]]]

\* df[[col, by]].groupby(by = by).size(): the group sizes.
groupby_size(df, col, by) == GroupCounts(df, col, by, FALSE)

\* df[[col, by]].groupby(by = by).count().reset_index(): per group, the
\* number of rows whose col is not missing.
groupby_count(df, col, by) == GroupCounts(df, col, by, TRUE)

\* The sum of the values of col in the rows `rows` of df, missing ones skipped.
RECURSIVE SumRows(_, _, _)
SumRows(df, col, rows) ==
    IF rows = {} THEN 0
    ELSE LET i == CHOOSE x \in rows : TRUE
             c == df.rows[i][col]
         IN  (IF c = NA THEN 0 ELSE IF c.t = "int" THEN c.n ELSE c.whole)
             + SumRows(df, col, rows \ {i})

\* df[[col, by]].groupby(by = by).sum().reset_index(): per group, the sum of
\* col; the sum has the dtype of the column.
groupby_sum(df, col, by, dtype) ==
    LET keys == GroupKeys(df, by)
        total(k) == SumRows(df, col, {i \in DOMAIN df.rows : df.rows[i][by] = keys[k]})
    IN  [columns |-> <<by, col>>,
         rows |-> [k \in DOMAIN keys |->
            [c \in {by, col} |->
               IF c = by THEN keys[k]
               ELSE IF dtype = "int64" THEN IntCell(total(k))
               ELSE NumCell(total(k), FALSE)]]]

\* The cell of column c in the row of df whose Code is key, NaN if none.
Lookup(df, key, c) ==
    IF \E i \in DOMAIN df.rows : df.rows[i]["Code"] = key
    THEN df.rows[CHOOSE i \in DOMAIN df.rows : df.rows[i]["Code"] = key][c]
    ELSE NA

\* The rows of a merge on 'Code' of two tables whose Code is unique: one row
\* per key, sorted by key, NaN where a table has no such key; a column name
\* that both tables have (other than Code) gets the suffix _x on the left and
\* _y on the right.
MergeOn(left, right, keyset) ==
    LET both == (ColumnSet(left) \cap ColumnSet(right)) \ {"Code"}
        lname(c) == IF c \in both THEN c \o "_x" ELSE c
        rname(c) == IF c \in both THEN c \o "_y" ELSE c
        rcols == SelectSeq(right.columns, LAMBDA c : c # "Code")
        lnames == {lname(c) : c \in ColumnSet(left)}
        rnames == {rname(rcols[i]) : i \in DOMAIN rcols}
        lorig(n) == CHOOSE c \in ColumnSet(left) : lname(c) = n
        rorig(n) == CHOOSE c \in ColumnSet(right) : c # "Code" /\ rname(c) = n
        keys == SortCodes(keyset)
    IN  [columns |-> [i \in DOMAIN left.columns |-> lname(left.columns[i])]
                     \o [i \in DOMAIN rcols |-> rname(rcols[i])],
         rows |-> [k \in DOMAIN keys |->
            [n \in lnames \cup rnames |->
               IF n = "Code" THEN keys[k]
               ELSE IF n \in lnames THEN Lookup(left, keys[k], lorig(n))
               ELSE Lookup(right, keys[k], rorig(n))]]]

CodesOf(df) == {df.rows[i]["Code"] : i \in DOMAIN df.rows}

\* left.merge(right, on = 'Code', how = 'right'): the keys of right only.
merge_right(left, right) == MergeOn(left, right, CodesOf(right))

\* left.merge(right, on = 'Code', how = 'outer'): the keys of either table.
merge(left, right) == MergeOn(left, right, CodesOf(left) \cup CodesOf(right))

----------------------------------------------------------------------------
(* codebook.categorical_countfreq_table *)

\* The dtype of the Code column of the frame built from a categories_dict.
KeyDtype(rows) ==
    IF \A i \in DOMAIN rows : rows[i]["Code"].t = "int" THEN "int64" ELSE "object"

\* The working copy after the casts and the drop: [df, code_dtype].
Recast(df, variable, keeps_na) ==
    LET col0 == Column(df, variable)
        to_float == \A i \in DOMAIN col0 : float_ok(col0[i])
        df1 == assign(df, variable,
                 [i \in DOMAIN col0 |-> IF to_float THEN astype_float(col0[i])
                                        ELSE astype_str(col0[i], keeps_na)])
        df2 == dropna(df1, variable)
        col2 == Column(df2, variable)
        to_int == \A i \in DOMAIN col2 : int_ok(col2[i])
    IN  [df |-> assign(df2, variable,
                  [i \in DOMAIN col2 |-> IF to_int THEN astype_int(col2[i])
                                         ELSE astype_str(col2[i], keeps_na)]),
         code_dtype |-> IF to_int THEN "int64" ELSE "object"]

\* self.input_df after the call had output_df been self.input_df itself:
\* the first cast (lines 567-569) is assigned into the dataset; dropna then
\* returns a new frame, which takes the second cast.
input_df_after_aliased(df, variable, keeps_na) ==
    LET col0 == Column(df, variable)
        to_float == \A i \in DOMAIN col0 : float_ok(col0[i])
    IN  assign(df, variable,
               [i \in DOMAIN col0 |-> IF to_float THEN astype_float(col0[i])
                                      ELSE astype_str(col0[i], keeps_na)])
\* self.input_df after the call: output_df is a copy (line 564), so the
\* assignments of the casts do not reach the dataset.
input_df_after(df, variable, keeps_na) == df

\* The number in a count or sum cell.
Amount(c) == IF c.t = "int" THEN c.n ELSE c.whole

\* The table of group aggregates `agg` with the share of `total` that each
\* group's `value` is, in a new column `percent`; both columns formatted.
WithShare(agg, value, percent, total) ==
    LET t1 == assign(agg, percent,
                 [i \in DOMAIN agg.rows |->
                    [t |-> "ratio", num |-> Amount(agg.rows[i][value]), den |-> total]])
        t2 == apply(t1, value, "{:,}")
    IN  apply(t2, percent, "{:.2%}")

\* The share taken of the number of groups: column / column.count().
WithPercentOfGroups(agg, value, percent) ==
    WithShare(agg, value, percent, Len(agg.rows))

\* The percent column is column / column.sum().
WithPercent(agg, value, percent) ==
    WithShare(agg, value, percent,
              SumSeq([i \in DOMAIN agg.rows |-> Amount(agg.rows[i][value])]))

\* categories_df: the declared codes and labels, or with no categories_dict
\* the observed codes as their own labels.
CategoriesDf(ds, variable, count_table) ==
    IF "categories_dict" \in DOMAIN ds[variable]
    THEN [columns |-> <<"Code", "Label">>, rows |-> ds[variable]["categories_dict"]]
    ELSE [columns |-> <<"Code", "Label">>,
          rows |-> [i \in DOMAIN count_table.rows |->
                      [c \in {"Code", "Label"} |-> count_table.rows[i]["Code"]]]]

categorical_countfreq_table(df, ds, keeps_na, variable, primary_key, pop_var) ==
    LET rc == Recast(df, variable, keeps_na)
        output_df == rc.df
        label_col == ds[primary_key]["MeasureUnit"]
        count_col == "Count of " \o label_col
        percent_col == "Percent " \o label_col
        count_table ==
            WithPercent(
                rename(rename(groupby_count(output_df, primary_key, variable),
                              primary_key, count_col), variable, "Code"),
                count_col, percent_col)
        categories_df == CategoriesDf(ds, variable, count_table)
        key_dtype == IF "categories_dict" \in DOMAIN ds[variable]
                     THEN KeyDtype(categories_df.rows) ELSE rc.code_dtype
        merged == merge(categories_df, count_table)
        categorical_table ==
            fillna(fillna(merged, count_col, StrCell("0")), percent_col, StrCell("0.00%"))
        pop_label == ds[pop_var]["MeasureUnit"]
        sum_col == "Sum of " \o pop_label
        pop_percent_col == "Percent " \o pop_label
        pop_table ==
            WithPercent(
                rename(rename(groupby_sum(output_df, pop_var, variable, df.dtypes[pop_var]),
                              pop_var, sum_col), variable, "Code"),
                sum_col, pop_percent_col)
        pop_merged == merge(categorical_table, pop_table)
    IN  IF "MeasureUnit" \notin DOMAIN ds[primary_key]
        THEN [raised |-> "KeyError"]
        ELSE IF key_dtype # rc.code_dtype
        THEN [raised |-> "ValueError"]   \* merge on object and int64 columns
        ELSE IF pop_var = ""
        THEN [raised |-> "", table |-> categorical_table]
        ELSE IF "MeasureUnit" \notin DOMAIN ds[pop_var]
                \/ sum_col \notin ColumnSet(pop_merged)
                \/ pop_percent_col \notin ColumnSet(pop_merged)
        THEN [raised |-> "KeyError"]
        ELSE [raised |-> "",
              table |-> fillna(fillna(pop_merged, sum_col, StrCell("0")),
                               pop_percent_col, StrCell("0.00%"))]

----------------------------------------------------------------------------
(* The summary tables: rows <<characteristic, details>> of texts *)

\* The three descriptor fields every summary reads, '' when absent.
\* A missing field rendered as str(None).
CharacteristicsOrNone(ds, variable) ==
    [c \in {"DataType", "AnalysisUnit", "MeasureUnit"} |->
        IF c \in DOMAIN ds[variable] THEN ds[variable][c] ELSE "None"]

Characteristics(ds, variable) ==
    [c \in {"DataType", "AnalysisUnit", "MeasureUnit"} |->
        IF c \in DOMAIN ds[variable] THEN ds[variable][c] ELSE ""]

\* series.count(): the number of values that are not missing.
count(col) == Cardinality({i \in DOMAIN col : col[i] # NA})
\* series.isna().sum()
isna_sum(col) == Cardinality({i \in DOMAIN col : col[i] = NA})

\* The value of a numeric cell in halves.
Halves(c) == IF c.t = "int" THEN 2 * c.n ELSE 2 * c.whole + (IF c.half THEN 1 ELSE 0)

\* The non-missing values of a column, in halves, in ascending order.
RECURSIVE SortNums(_)
SortNums(S) ==
    IF S = {} THEN <<>>
    ELSE LET i == CHOOSE x \in S : \A y \in S : x[2] < y[2] \/ (x[2] = y[2] /\ x[1] <= y[1])
         IN  <<i[2]>> \o SortNums(S \ {i})
\* The non-missing values in the order of the rows.
UnsortedValues(col) ==
    LET kept_rows == SelectSeq(col, LAMBDA c : c # NA)
    IN  [i \in DOMAIN kept_rows |-> Halves(kept_rows[i])]
SortedValues(col) == SortNums({<<i, Halves(col[i])>> : i \in {j \in DOMAIN col : col[j] # NA}})

\* "{:,.2f}".format(x) for x = num/den >= 0; NaN is a denominator of 0.
FormatFixed2(num, den) ==
    IF den = 0 THEN "nan"
    ELSE LET h == RoundHalfEven(100 * num, den)
         IN  FormatComma(h \div 100) \o "." \o Pad2(h % 100)

\* The digits of n in base 100, most significant first.
RECURSIVE Pairs(_)
Pairs(n) == IF n < 100 THEN <<n>> ELSE Append(Pairs(n \div 100), n % 100)

\* One step of the digit-by-digit square root: root so far p, remainder r.
SqrtStep(st, pair) ==
    LET c == 100 * st.r + pair
        d == CHOOSE x \in 0..9 : /\ (20 * st.p + x) * x <= c
                                 /\ (20 * st.p + x + 1) * (x + 1) > c
    IN  [p |-> 10 * st.p + d, r |-> c - (20 * st.p + d) * d]

RECURSIVE SqrtWhole(_)
SqrtWhole(pairs) ==
    IF pairs = <<>> THEN [p |-> 0, r |-> 0]
    ELSE SqrtStep(SqrtWhole(SubSeq(pairs, 1, Len(pairs) - 1)), pairs[Len(pairs)])

\* The square root of num/den carried to k decimals: the root in units of
\* 10^-k (field p), the rest of the radicand (r) and of the division (m).
RECURSIVE SqrtDecimals(_, _, _)
SqrtDecimals(num, den, k) ==
    IF k = 0 THEN SqrtWhole(Pairs(num \div den)) @@ [m |-> num % den]
    ELSE LET prev == SqrtDecimals(num, den, k - 1)
             step == SqrtStep(prev, (100 * prev.m) \div den)
         IN  step @@ [m |-> (100 * prev.m) % den]

\* "{:,.2f}".format of the square root of num/den.
FormatSqrtFixed2(num, den) ==
    IF den = 0 THEN "nan"
    ELSE LET root == SqrtDecimals(num, den, 3)
             exact == root.r = 0 /\ root.m = 0
             h == IF exact THEN RoundHalfEven(root.p, 10) ELSE (root.p + 5) \div 10
         IN  FormatComma(h \div 100) \o "." \o Pad2(h % 100)

\* The quantile taken without interpolation, at the lower neighbour.
quantile_lower(vals, q) ==
    IF vals = <<>> THEN [num |-> 0, den |-> 0]
    ELSE [num |-> vals[((Len(vals) - 1) * q) \div 100 + 1], den |-> 2]

\* series.quantile(q), linear interpolation, q in hundredths: [num, den] in units.
quantile(vals, q) ==
    IF vals = <<>> THEN [num |-> 0, den |-> 0]
    ELSE LET pos == (Len(vals) - 1) * q
             lo == pos \div 100 + 1
             hi == IF pos % 100 = 0 THEN lo ELSE lo + 1
         IN  [num |-> 100 * vals[lo] + (pos % 100) * (vals[hi] - vals[lo]), den |-> 200]

\* series.describe() of a numeric column: mean and the sample variance.
mean(vals) == [num |-> SumSeq(vals), den |-> 2 * Len(vals)]
var(vals) ==
    LET n == Len(vals)
        squares == SumSeq([i \in DOMAIN vals |-> vals[i] * vals[i]])
    IN  IF n < 2 THEN [num |-> 0, den |-> 0]
        ELSE [num |-> n * squares - SumSeq(vals) * SumSeq(vals), den |-> 4 * n * (n - 1)]

\* codebook.numeric_table: table_data
numeric_table_data(df, ds, variable) ==
    LET col == Column(df, variable)
        total_cases_fmt == FormatComma(Len(col))
        valid_count_fmt == FormatComma(count(col))
        missing_count_fmt == FormatComma(isna_sum(col))
        vals == SortedValues(col)
        fmt(x) == FormatFixed2(x.num, x.den)
        least == IF vals = <<>> THEN [num |-> 0, den |-> 0] ELSE [num |-> vals[1], den |-> 2]
        most == IF vals = <<>> THEN [num |-> 0, den |-> 0]
                ELSE [num |-> vals[Len(vals)], den |-> 2]
        descriptive_stats ==
            [min |-> fmt(least), max |-> fmt(most), mean |-> fmt(mean(vals)),
             std |-> FormatSqrtFixed2(var(vals).num, var(vals).den),
             p10 |-> fmt(quantile(vals, 10)), p25 |-> fmt(quantile(vals, 25)),
             p50 |-> fmt(quantile(vals, 50)), p75 |-> fmt(quantile(vals, 75)),
             p90 |-> fmt(quantile(vals, 90))]
        characteristics == Characteristics(ds, variable)
    IN  << <<"variable type", "numeric (" \o characteristics["DataType"] \o ")">>,
           <<"total cases", total_cases_fmt>>,
           <<"valid cases", valid_count_fmt>>,
           <<"missing cases", missing_count_fmt>>,
           <<"unit of measure", characteristics["MeasureUnit"]>>,
           <<"unit of analysis", characteristics["AnalysisUnit"]>>,
           <<"range", "minimum value: " \o descriptive_stats.min
                      \o " to  maximum value: " \o descriptive_stats.max>>,
           <<"mean", descriptive_stats.mean>>,
           <<"median", descriptive_stats.p50>>,
           <<"standard deviation", descriptive_stats.std>>,
           <<"10th percentile", descriptive_stats.p10>>,
           <<"25th percentile", descriptive_stats.p25>>,
           <<"50th percentile", descriptive_stats.p50>>,
           <<"75th percentile", descriptive_stats.p75>>,
           <<"90th percentile", descriptive_stats.p90>> >>

\* The table without its median row.
numeric_table_without_median(df, ds, variable) ==
    LET table_data == numeric_table_data(df, ds, variable)
    IN  [raised |-> "", table |-> SubSeq(table_data, 1, 8) \o SubSeq(table_data, 10, 15)]

\* codebook.numeric_table
numeric_table(df, ds, variable) ==
    [raised |-> "", table |-> numeric_table_data(df, ds, variable)]

\* The shortest text, the first in order among the shortest.
ShortestText(S) ==
    LET shortest == {x \in S : \A y \in S : Len(x) <= Len(y)}
    IN  CHOOSE x \in shortest : \A y \in shortest : TextRank(x) <= TextRank(y)

\* min() and max() of a list of texts.
MinText(S) == CHOOSE x \in S : \A y \in S : TextRank(x) <= TextRank(y)
MaxText(S) == CHOOSE x \in S : \A y \in S : TextRank(x) >= TextRank(y)

\* str(x) of a cell put into the numpy array of texts.
CellText(c) ==
    IF c.t = "na" THEN "nan" ELSE astype_str(c, FALSE).s

\* series.unique().tolist(): the distinct values in order of first appearance.
RECURSIVE unique(_)
unique(col) ==
    IF col = <<>> THEN <<>>
    ELSE LET front == unique(SubSeq(col, 1, Len(col) - 1))
             last == col[Len(col)]
         IN  IF \E i \in DOMAIN front : front[i] = last THEN front
             ELSE Append(front, last)

\* random.sample(example_list, 4) after random.seed(self.seed): four distinct
\* positions of the list, in the order the seeded generator draws them. No
\* draw is made when the list has fewer than four entries.
Samples(n) ==
    IF n < 4 THEN {<<>>}
    ELSE {p \in [1..4 -> 1..n] : \A i, j \in 1..4 : i # j => p[i] # p[j]}

\* The generator is deterministic: a state after seeding that depends on the
\* seed alone, and draws that depend on the state alone.  The Mersenne
\* Twister is stood in for by a counter modulo RngStates.
\* random.seed(a): the state it leaves.
random_seed_skipped(state, a) == state
random_seed(state, a) == a % RngStates
\* One draw: the state it leaves.
random_next(state) == (state + 1) % RngStates
\* random.sample(population, 4) for a population of n >= 4, as positions.
random_choices(state, n) ==
    IF n < 4 THEN <<>> ELSE [i \in 1..4 |-> ((state + (i - 1) \div 2) % n) + 1]
random_sample(state, n) ==
    IF n < 4 THEN <<>> ELSE [i \in 1..4 |-> ((state + i - 1) % n) + 1]
\* The state after string_table's example step: seeded, then four draws if
\* it sampled.
RngAfterExamples(state, a, n) ==
    LET seeded == random_seed(state, a)
    IN  IF n < 4 THEN seeded
        ELSE random_next(random_next(random_next(random_next(seeded))))

\* codebook.string_table; sample is the draw of random.sample.
string_table(df, ds, keeps_na, variable, sample) ==
    LET col == Column(df, variable)
        describe_var == [i \in DOMAIN col |-> astype_str(col[i], keeps_na)]
        total_cases_fmt == FormatComma(Len(describe_var))
        valid_count_fmt == FormatComma(count(describe_var))
        \* describe_var.loc[describe_var.isna()].count()
        missing_count_fmt ==
            FormatComma(count(SelectSeq(describe_var, LAMBDA c : c = NA)))
        unique_count_fmt ==
            FormatComma(Cardinality({describe_var[i] : i \in DOMAIN describe_var} \ {NA}))
        varid_list == {(IF describe_var[i] = NA THEN StrCell("0") ELSE describe_var[i]).s
                         : i \in DOMAIN describe_var}
        min_var_len == Len(MinText(varid_list))
        max_var_len == Len(MaxText(varid_list))
        example_list == unique(col)
        examples == [i \in 1..4 |->
                       IF Len(example_list) >= 4 THEN example_list[sample[i]]
                       ELSE example_list[((i - 1) % Len(example_list)) + 1]]
        characteristics == Characteristics(ds, variable)
    IN  IF col = <<>>
        THEN [raised |-> "ValueError"]    \* min() of an empty list
        ELSE [raised |-> "",
              table |-> << <<"variable type", "string">>,
                           <<"total cases", total_cases_fmt>>,
                           <<"valid cases", valid_count_fmt>>,
                           <<"missing cases", missing_count_fmt>>,
                           <<"unit of measure", characteristics["MeasureUnit"]>>,
                           <<"unit of analysis", characteristics["AnalysisUnit"]>>,
                           <<"unique values", unique_count_fmt>>,
                           <<"minimum length", ToString(min_var_len)>>,
                           <<"maximum length", ToString(max_var_len)>>,
                           <<"example 1", CellText(examples[1])>>,
                           <<"example 2", CellText(examples[2])>>,
                           <<"example 3", CellText(examples[3])>>,
                           <<"example 4", CellText(examples[4])>> >>]

\* "{:,.0f}".format(x): no decimals, a half rounds to the even neighbour.
FormatComma0f(c) ==
    FormatComma(IF c.half /\ c.whole % 2 = 1 THEN c.whole + 1 ELSE c.whole)

\* The smaller (least = TRUE) or larger of the values of a float column.
Extreme(col, least) ==
    LET vals == {col[i] : i \in DOMAIN col} \ {NA}
        key(c) == 2 * c.whole + (IF c.half THEN 1 ELSE 0)
    IN  CHOOSE x \in vals : \A y \in vals :
            IF least THEN key(x) <= key(y) ELSE key(x) >= key(y)

\* The except branch reporting a missing number instead of 'NA'.
RangeBoundNan(col, least) ==
    LET float_var == [i \in DOMAIN col |-> IF float_ok(col[i]) THEN astype_float(col[i]) ELSE NA]
    IN  IF (\E i \in DOMAIN col : ~float_ok(col[i])) \/ count(float_var) = 0 THEN "nan"
        ELSE FormatComma0f(Extreme(float_var, least))

\* One bound of the range: the column cast to float and its describe() min
\* or max formatted, or 'NA' if that raises.
RangeBound(col, least) ==
    IF \E i \in DOMAIN col : ~float_ok(col[i]) THEN "NA"
    ELSE LET float_var == [i \in DOMAIN col |-> astype_float(col[i])]
         IN  IF count(float_var) = 0 THEN "nan"
             ELSE FormatComma0f(Extreme(float_var, least))

\* codebook.categorical_toptable
categorical_toptable(df, ds, variable) ==
    LET col == Column(df, variable)
        total_cases_fmt == FormatComma(Len(col))
        \* describe()['count'] is a float for a numeric column, an int otherwise
        valid_count_fmt ==
            IF df.dtypes[variable] = "object" THEN FormatComma(count(col))
            ELSE FormatCommaFloat(count(col))
        missing_count_fmt == FormatComma(isna_sum(col))
        stat(least) == RangeBound(col, least)
        characteristics == Characteristics(ds, variable)
    IN  [raised |-> "",
         table |-> << <<"variable type", "categorical (" \o characteristics["DataType"] \o ")">>,
                      <<"total cases", total_cases_fmt>>,
                      <<"valid cases", valid_count_fmt>>,
                      <<"missing cases", missing_count_fmt>>,
                      <<"unit of measure", characteristics["MeasureUnit"]>>,
                      <<"unit of analysis", characteristics["AnalysisUnit"]>>,
                      <<"range", "minimum value: " \o stat(TRUE)
                                 \o " to  maximum value: " \o stat(FALSE)>> >>]

----------------------------------------------------------------------------
(* The datasets and schemas *)

NumericCells == {NA, NumCell(1, FALSE), NumCell(1, TRUE), NumCell(3, FALSE)}
TextCells == {NA, StrCell("A"), StrCell("1")}
KeyCells == {NA, StrCell("h")}
PopCells(dtype) ==
    IF dtype = "int64" THEN {IntCell(0), IntCell(700)}
    ELSE {NA, NumCell(700, FALSE)}
CellsOf(dtype) == IF dtype = "object" THEN TextCells ELSE NumericCells

Frame(var_dtype, pop_dtype, rows) ==
    [columns |-> <<"huid", "ownershp", "numprec">>,
     dtypes |-> [ownershp |-> var_dtype, numprec |-> pop_dtype],
     rows |-> rows]

\* The datasets: a primary key column huid that may have gaps, a categorical
\* column ownershp stored as numbers or as text, a population column numprec
\* stored as integers or (then it may have missing values) as floats.
DataFrames ==
    UNION {
      {Frame(d[1], d[2], r) :
          r \in UNION {[1..n -> [ownershp : CellsOf(d[1]), huid : KeyCells,
                                 numprec : PopCells(d[2])]] : n \in 0..MaxRows}}
      : d \in {"float64", "object"} \X {"int64", "float64"}}

\* Longer datasets of whole-numbered codes with a complete primary key, as in
\* the sample data (tenure status: 1 owned, 2 rented).
ExampleFrames ==
    {Frame("float64", "int64", r) :
        r \in UNION {[1..n -> [ownershp : {NA, NumCell(1, FALSE), NumCell(2, FALSE),
                                           NumCell(3, FALSE)},
                               huid : {StrCell("h")},
                               numprec : {IntCell(700)}]] : n \in 0..ExampleRows}}

CategoriesDicts ==
    { << [Code |-> IntCell(1), Label |-> StrCell("Owned")],
         [Code |-> IntCell(2), Label |-> StrCell("Rented")] >>,
      << [Code |-> StrCell("A"), Label |-> StrCell("Alpha")],
         [Code |-> StrCell("B"), Label |-> StrCell("Beta")] >> }

\* The schema of the three columns; cats is <<>> for no categories_dict.
Schema(dtype, cats) ==
    LET ownershp == [label |-> "Tenure Status",
                     DataType |-> IF dtype = "object" THEN "String" ELSE "Int",
                     pyType |-> "category",
                     AnalysisUnit |-> "Household",
                     MeasureUnit |-> "Housing unit",
                     primary_key |-> "huid",
                     pop_var |-> "numprec"]
    IN  [huid |-> [label |-> "Housing Unit ID", DataType |-> "String", pyType |-> "str",
                   AnalysisUnit |-> "Housing unit", MeasureUnit |-> "Housing units"],
         numprec |-> [label |-> "Number of Person Records", DataType |-> "Int",
                      pyType |-> "int", AnalysisUnit |-> "Housing unit",
                      MeasureUnit |-> "Persons"],
         ownershp |-> IF cats = <<>> THEN ownershp
                      ELSE ("categories_dict" :> cats) @@ ownershp]

\* Datasets for the summaries: one column varies, the others are complete.
SummaryRows == 3
TensRows == 5

SummaryCells(column, dtype) ==
    CASE column = "numprec" ->
            IF dtype = "int64" THEN {IntCell(0), IntCell(10), IntCell(1200)}
            ELSE {NA, NumCell(10, FALSE), NumCell(1200, FALSE)}
      [] column = "huid" -> {NA, StrCell("aaa"), StrCell("b")}
      [] column = "ownershp" -> CellsOf(dtype)

DefaultRow == [ownershp |-> NumCell(1, FALSE), huid |-> StrCell("h"), numprec |-> IntCell(10)]

\* The datasets of up to SummaryRows rows in which `column` takes the cells
\* of the given dtype.
VaryColumn(column, dtype) ==
    LET var_dtype == IF column = "ownershp" THEN dtype ELSE "float64"
        pop_dtype == IF column = "numprec" THEN dtype ELSE "int64"
    IN  {Frame(var_dtype, pop_dtype, [i \in DOMAIN col |-> [DefaultRow EXCEPT ![column] = col[i]]]) :
            col \in UNION {[1..n -> SummaryCells(column, dtype)] : n \in 0..SummaryRows}}

\* The numeric column 10, 20, 30, ... with any of its values missing.
TensFrames ==
    {Frame("float64", "float64",
           [i \in DOMAIN present |->
               [DefaultRow EXCEPT !["numprec"] =
                   IF present[i] THEN NumCell(10 * i, FALSE) ELSE NA]]) :
        present \in UNION {[1..n -> BOOLEAN] : n \in 0..TensRows}}

SummaryFrames ==
    VaryColumn("numprec", "int64") \cup VaryColumn("numprec", "float64")
    \cup TensFrames
    \cup VaryColumn("huid", "object")
    \cup VaryColumn("ownershp", "float64") \cup VaryColumn("ownershp", "object")

\* Text columns with up to LetterRows distinct values: row i carries the
\* i-th letter, the first letter again, or nothing.
LetterRows == 5
Letters == <<"a", "b", "c", "d", "e", "f">>
LetterFrames ==
    {Frame("float64", "int64",
           [i \in DOMAIN col |-> [DefaultRow EXCEPT !["huid"] = col[i]]]) :
        col \in UNION {
            {c \in [1..n -> {NA} \cup {StrCell(Letters[i]) : i \in 1..n}] :
                \A i \in 1..n : c[i] \in {NA, StrCell(Letters[1]), StrCell(Letters[i])}}
            : n \in 0..LetterRows}}

\* The schema in which every descriptor lacks the fields of `absent`.
Without(ds, absent) ==
    [v \in DOMAIN ds |-> [f \in DOMAIN ds[v] \ absent |-> ds[v][f]]]

CharacteristicFields == {"DataType", "MeasureUnit", "AnalysisUnit"}

----------------------------------------------------------------------------
(* The state machine: a codebook object and the calls made on it *)

\* seed: int = 15151
DefaultSeed == 15151

\* A codebook without project overview, key terms and footer image.
NoPaths ==
    /\ projectoverview = ""
    /\ keyterms = ""
    /\ footer_image_path = ""

Init ==
    /\ input_df \in DataFrames \cup ExampleFrames
    /\ \E cats \in CategoriesDicts \cup {<<>>} :
          datastructure = Schema(input_df.dtypes["ownershp"], cats)
    /\ astype_str_keeps_na \in BOOLEAN
    /\ result = [op |-> "none"]
    /\ seed = DefaultSeed
    /\ rng = random_seed(0, seed)
    /\ NoPaths
    /\ kept = [op |-> "none"]
    /\ pdf = [status |-> "none"]

\* table = self.categorical_countfreq_table(variable, primary_key, pop_var),
\* as add_var_summary calls it: pop_var is the schema's or ''.
CallCountFreq(pop_var) ==
    /\ result' = [op |-> "categorical_countfreq_table",
                  variable |-> "ownershp", pop_var |-> pop_var,
                  ret |-> categorical_countfreq_table(
                             input_df, datastructure, astype_str_keeps_na,
                             "ownershp", datastructure["ownershp"]["primary_key"],
                             pop_var)]
    /\ input_df' = input_df_after(input_df, "ownershp", astype_str_keeps_na)
    /\ UNCHANGED <<datastructure, astype_str_keeps_na, seed, paths, rng, kept, pdf>>

\* table = self.numeric_table(variable), for the numeric column
CallNumericTable ==
    /\ result' = [op |-> "numeric_table", variable |-> "numprec",
                  ret |-> numeric_table(input_df, datastructure, "numprec")]
    /\ UNCHANGED <<input_df, datastructure, astype_str_keeps_na, seed, paths, rng, kept, pdf>>

\* table = self.string_table(variable), for the text column
CallStringTable ==
    /\ LET n == Len(unique(Column(input_df, "huid")))
           sample == random_sample(random_seed(rng, seed), n)
       IN  /\ result' = [op |-> "string_table", variable |-> "huid",
                         rng_before |-> rng,
                         ret |-> string_table(input_df, datastructure,
                                              astype_str_keeps_na, "huid", sample)]
           /\ rng' = IF n = 0 THEN rng ELSE RngAfterExamples(rng, seed, n)
    /\ UNCHANGED <<input_df, datastructure, astype_str_keeps_na, seed, paths, kept, pdf>>

\* table = self.categorical_toptable(variable), for the categorical column
CallCategoricalTopTable ==
    /\ result' = [op |-> "categorical_toptable", variable |-> "ownershp",
                  ret |-> categorical_toptable(input_df, datastructure, "ownershp")]
    /\ UNCHANGED <<input_df, datastructure, astype_str_keeps_na, seed, paths, rng, kept, pdf>>

Next ==
    \/ \E pop_var \in {"", "numprec"} : CallCountFreq(pop_var)
    \/ CallNumericTable
    \/ CallStringTable
    \/ CallCategoricalTopTable

Spec == Init /\ [][Next]_vars

\* The summaries alone, for descriptors that lack characteristic fields.
SummaryInit ==
    /\ input_df \in SummaryFrames
    /\ \E absent \in SUBSET CharacteristicFields :
          datastructure = Without(Schema(input_df.dtypes["ownershp"], <<>>), absent)
    /\ astype_str_keeps_na \in BOOLEAN
    /\ result = [op |-> "none"]
    /\ seed = DefaultSeed
    /\ rng = random_seed(0, seed)
    /\ NoPaths
    /\ kept = [op |-> "none"]
    /\ pdf = [status |-> "none"]

SummaryNext ==
    \/ CallNumericTable
    \/ CallStringTable
    \/ CallCategoricalTopTable

SummarySpec == SummaryInit /\ [][SummaryNext]_vars

\* Repeated summaries of a text column, with other users of the global
\* generator and a caller that keeps a returned table.
Seeds == {DefaultSeed, DefaultSeed + 1}

ExamplesInit ==
    /\ input_df \in LetterFrames
    /\ datastructure = Schema("float64", <<>>)
    /\ astype_str_keeps_na \in BOOLEAN
    /\ result = [op |-> "none"]
    /\ seed \in Seeds
    /\ rng \in 0..(RngStates - 1)
    /\ NoPaths
    /\ kept = [op |-> "none"]
    /\ pdf = [status |-> "none"]

\* Any other code draws from the global generator.
RandomDraw ==
    /\ rng' = random_next(rng)
    /\ UNCHANGED <<input_df, datastructure, astype_str_keeps_na, result, seed, paths, kept, pdf>>

\* The caller keeps the table string_table returned.
KeepResult ==
    /\ result.op = "string_table"
    /\ kept' = result
    /\ UNCHANGED <<input_df, datastructure, astype_str_keeps_na, result, seed, paths, rng, pdf>>

ExamplesNext ==
    \/ CallStringTable
    \/ CallNumericTable
    \/ RandomDraw
    \/ KeepResult

ExamplesSpec == ExamplesInit /\ [][ExamplesNext]_vars

----------------------------------------------------------------------------
(* codebook.add_var_summary and create_codebook: the report *)

\* dict.get(key, '')
dict_get(d, key) == IF key \in DOMAIN d THEN d[key] ELSE ""

\* The method add_var_summary picks for a column, "" when it skips it.
SummaryMethod(ds, variable) ==
    LET dtype == dict_get(ds[variable], "DataType")
        pytype == dict_get(ds[variable], "pyType")
    IN  IF dtype = "String" /\ pytype # "category" THEN "string_table"
        ELSE IF dtype = "String" /\ pytype = "category" THEN "categorical_toptable"
        ELSE IF dtype \in {"Float", "Int"} /\ pytype # "category" THEN "numeric_table"
        ELSE IF dtype \in {"Float", "Int"} /\ pytype = "category"
        THEN "categorical_toptable"
        ELSE ""

\* The summary table of a column; self.input_df[variable] raises KeyError
\* when the dataset has no such column.
SummaryTable(df, ds, keeps_na, variable, state, a) ==
    LET method == SummaryMethod(ds, variable)
    IN  IF variable \notin ColumnSet(df)
        THEN [raised |-> "KeyError"]
        ELSE IF method = "string_table"
        THEN string_table(df, ds, keeps_na, variable,
                          random_sample(random_seed(state, a),
                                        Len(unique(Column(df, variable)))))
        ELSE IF method = "numeric_table"
        THEN numeric_table(df, ds, variable)
        ELSE categorical_toptable(df, ds, variable)

\* The generator after the summary table of a column.
RngAfterSummary(df, ds, variable, state, a) ==
    IF /\ SummaryMethod(ds, variable) = "string_table"
       /\ variable \in ColumnSet(df)
       /\ Len(Column(df, variable)) > 0
    THEN RngAfterExamples(state, a, Len(unique(Column(df, variable))))
    ELSE state

\* The frequency table add_var_summary asks for a categorical column.
FrequencyTable(df, ds, keeps_na, variable) ==
    LET pop_var == dict_get(ds[variable], "pop_var")
    IN  IF "primary_key" \notin DOMAIN ds[variable]
        THEN [raised |-> "KeyError"]
        ELSE IF \/ ds[variable]["primary_key"] \notin ColumnSet(df)
                \/ (pop_var # "" /\ pop_var \notin ColumnSet(df))
        THEN [raised |-> "KeyError"]
        ELSE categorical_countfreq_table(df, ds, keeps_na, variable,
                                         ds[variable]["primary_key"], pop_var)

\* [columns.tolist()] + values.tolist()
TableData(df) ==
    [header |-> df.columns,
     values |-> [i \in DOMAIN df.rows |->
                   [j \in DOMAIN df.columns |-> df.rows[i][df.columns[j]]]]]

\* The column widths of a frequency table.
CellWidths(ncols) ==
    IF ncols = 6 THEN "12-rest-24-24-18-18"
    ELSE IF ncols = 5 THEN "12-rest-30-24-24"
    ELSE IF ncols = 4 THEN "12-rest-24-24"
    ELSE "even"

\* The notes placed before the tables.
RenderedNotesFirst(ds, variable, table, freq) ==
    LET d == ds[variable]
        title == variable \o ": " \o dict_get(d, "label")
        summary == [variable |-> variable, title |-> title, summary |-> table.table]
        frequencies ==
            [variable |-> variable,
             title |-> title \o " - Categorical codes, labels and frequencies",
             frequencies |-> TableData(freq.table),
             cell_width |-> CellWidths(Len(freq.table.columns))]
        notes == [variable |-> variable,
                  title |-> "Variable Notes: " \o variable,
                  notes |-> d["notes"]]
    IN  (IF "notes" \in DOMAIN d THEN <<notes>> ELSE <<>>)
        \o <<summary>>
        \o (IF dict_get(d, "pyType") = "category" THEN <<frequencies>> ELSE <<>>)
\* What one pass of the loop renders for a column whose tables were built.
Rendered(ds, variable, table, freq) ==
    LET d == ds[variable]
        title == variable \o ": " \o dict_get(d, "label")
        summary == [variable |-> variable, title |-> title, summary |-> table.table]
        frequencies ==
            [variable |-> variable,
             title |-> title \o " - Categorical codes, labels and frequencies",
             frequencies |-> TableData(freq.table),
             cell_width |-> CellWidths(Len(freq.table.columns))]
        notes == [variable |-> variable,
                  title |-> "Variable Notes: " \o variable,
                  notes |-> d["notes"]]
    IN  <<summary>>
        \o (IF dict_get(d, "pyType") = "category" THEN <<frequencies>> ELSE <<>>)
        \o (IF "notes" \in DOMAIN d THEN <<notes>> ELSE <<>>)

\* The order of the schema's keys.
SchemaKeys == <<"huid", "numprec", "ownershp">>

\* The sample schema's note on the primary key.
WithNotes(ds) ==
    [ds EXCEPT !["huid"] = ("notes" :> "1. Primary Key for sample data. ") @@ @]

\* A dataset without one of its columns.
DropColumn(df, c) ==
    [columns |-> SelectSeq(df.columns, LAMBDA x : x # c),
     dtypes |-> [x \in DOMAIN df.dtypes \ {c} |-> df.dtypes[x]],
     rows |-> [i \in DOMAIN df.rows |->
                 [x \in DOMAIN df.rows[i] \ {c} |-> df.rows[i][x]]]]

\* Datasets for the report: a complete primary key, whole populations, and
\* possibly one of the schema's columns absent.
ReportFrames ==
    LET full ==
          UNION {
            {Frame(d, "int64", r) :
                r \in UNION {{rows \in [1..n -> [ownershp : CellsOf(d),
                                                  huid : {StrCell(Letters[k]) : k \in 1..MaxRows},
                                                  numprec : PopCells("int64")]] :
                                 \A i \in 1..n : rows[i].huid = StrCell(Letters[i])}
                             : n \in 1..MaxRows}}
            : d \in {"float64", "object"}}
    IN  full \cup {DropColumn(df, SchemaKeys[k]) : df \in full, k \in DOMAIN SchemaKeys}

\* Whether the dataset stores the categorical column as text; the schema
\* still describes a column the dataset lacks.
StoredAs(df) ==
    IF "ownershp" \in DOMAIN df.dtypes THEN df.dtypes["ownershp"] ELSE "float64"

ReportInit ==
    /\ input_df \in ReportFrames
    /\ \E cats \in {<<>>} \cup CategoriesDicts :
          datastructure = WithNotes(Schema(StoredAs(input_df), cats))
    /\ astype_str_keeps_na \in BOOLEAN
    /\ result = [op |-> "none"]
    /\ seed = DefaultSeed
    /\ rng = random_seed(0, seed)
    /\ NoPaths
    /\ kept = [op |-> "none"]
    /\ pdf = [status |-> "none"]

\* The files on disk: the paths that exist, and those among them FPDF can
\* render as an image.
Files == {"overview.md", "keyterms.md", "logo.png", "broken.png"}
Images == {"logo.png"}
os_path_exists(path) == path \in Files

\* The footer text create_codebook gives the document.
footer_text == "codebook | Generated: timestamp"

\* PDF.footer without the try of line 106: the error of self.image leaves
\* the footer.
footer_unguarded(image_path, page_no) ==
    IF image_path # "" /\ os_path_exists(image_path) /\ image_path \notin Images
    THEN <<[event |-> "raise", error |-> "Exception", page_no |-> page_no]>>
    ELSE (IF image_path # "" /\ os_path_exists(image_path)
          THEN <<[event |-> "image", name |-> image_path, page_no |-> page_no]>>
          ELSE <<>>)
         \o <<[event |-> "cell", text |-> "Page {nb}", page_no |-> page_no],
              [event |-> "cell", text |-> footer_text, page_no |-> page_no]>>
\* PDF.footer: the image if the path is set and exists and self.image does
\* not raise, then the page number, then the footer text.
footer(image_path, page_no) ==
    (IF image_path # "" /\ os_path_exists(image_path) /\ image_path \in Images
     THEN <<[event |-> "image", name |-> image_path, page_no |-> page_no]>>
     ELSE <<>>)
    \o <<[event |-> "cell", text |-> "Page {nb}", page_no |-> page_no],
         [event |-> "cell", text |-> footer_text, page_no |-> page_no]>>

\* FPDF.add_page: the footer of the page that ends, then the new page and
\* its header.
add_page(doc, image_path) ==
    [doc EXCEPT
       !.content = @ \o (IF doc.page > 0 THEN footer(image_path, doc.page) ELSE <<>>)
                     \o <<[event |-> "add_page", page_no |-> doc.page + 1]>>,
       !.page = @ + 1]

emit(doc, events) == [doc EXCEPT !.content = @ \o events]
start_section(doc, name) == emit(doc, <<[event |-> "start_section", name |-> name]>>)
raise(doc, error) == [doc EXCEPT !.status = "raised", !.error = error]
goto(doc, stage) == [doc EXCEPT !.stage = stage]

\* codebook.create_data_dictionary_table: a row per dataset column; the four
\* characteristics of a column the schema has, ' ' for a field its
\* descriptor lacks; a column the schema lacks is left as NaN, and without
\* any schema column the table has the variable names only.
DictionaryFields == <<"DataType", "length", "categorical", "label">>
DictionaryColumns == <<"Data Type", "Length", "Categorical", "Variable Label">>
DictionaryCell(ds, variable, field) ==
    IF variable \notin DOMAIN ds THEN NA
    ELSE IF field \in DOMAIN ds[variable] THEN StrCell(ds[variable][field])
    ELSE StrCell(" ")
create_data_dictionary_table(df, ds) ==
    LET described == \E i \in DOMAIN df.columns : df.columns[i] \in DOMAIN ds
        columns == IF described THEN <<"Variable Name">> \o DictionaryColumns
                   ELSE <<"Variable Name">>
    IN  [columns |-> columns,
         rows |-> [i \in DOMAIN df.columns |->
                     [c \in {columns[k] : k \in DOMAIN columns} |->
                        IF c = "Variable Name" THEN StrCell(df.columns[i])
                        ELSE LET k == CHOOSE k \in DOMAIN DictionaryColumns :
                                          DictionaryColumns[k] = c
                             IN  DictionaryCell(ds, df.columns[i], DictionaryFields[k])]]]

\* create_codebook up to the first section: the document is made, its first
\* page and the placeholder of the table of contents are added.
StartCodebook ==
    /\ pdf.status = "none"
    /\ LET doc == [status |-> "open", stage |-> "overview", todo |-> <<>>,
                   content |-> <<>>, error |-> "", page |-> 0]
       IN  pdf' = add_page(emit(add_page(doc, footer_image_path),
                                <<[event |-> "insert_toc_placeholder"]>>),
                           footer_image_path)
    /\ UNCHANGED <<input_df, datastructure, astype_str_keeps_na, result, seed, paths, rng, kept>>

\* add_projectoverview called whatever the path.
AddProjectOverviewAlways ==
    /\ pdf.status = "open"
    /\ pdf.stage = "overview"
    /\ LET started == start_section(pdf, "Project Overview: Summary of Project Details")
       IN  pdf' =
             IF ~os_path_exists(projectoverview)
             THEN raise(started, "FileNotFoundError")
             ELSE goto(add_page(emit(started, <<[event |-> "multi_cell",
                                                 file |-> projectoverview]>>),
                                footer_image_path), "dictionary")
    /\ UNCHANGED <<input_df, datastructure, astype_str_keeps_na, result, seed, paths, rng, kept>>
\* if self.projectoverview != '': self.add_projectoverview(pdf)
AddProjectOverview ==
    /\ pdf.status = "open"
    /\ pdf.stage = "overview"
    /\ LET started == start_section(pdf, "Project Overview: Summary of Project Details")
       IN  pdf' =
             IF projectoverview = "" THEN goto(pdf, "dictionary")
             ELSE IF ~os_path_exists(projectoverview)
             THEN raise(started, "FileNotFoundError")
             ELSE goto(add_page(emit(started, <<[event |-> "multi_cell",
                                                 file |-> projectoverview]>>),
                                footer_image_path), "dictionary")
    /\ UNCHANGED <<input_df, datastructure, astype_str_keeps_na, result, seed, paths, rng, kept>>

\* self.add_datadictionary(pdf)
AddDataDictionary ==
    /\ pdf.status = "open"
    /\ pdf.stage = "dictionary"
    /\ LET table == create_data_dictionary_table(input_df, datastructure)
           started == start_section(pdf, "Data Dictionary: Summary of Variables")
       IN  pdf' = goto(add_page(emit(started,
                                     <<[event |-> "create_table", title |-> "",
                                        dictionary |-> TableData(table),
                                        cell_width |-> "30-20-14-25-rest"]>>),
                                footer_image_path), "variables")
    /\ UNCHANGED <<input_df, datastructure, astype_str_keeps_na, result, seed, paths, rng, kept>>

\* add_var_summary up to its loop: the section and its introduction.
StartVarSummary ==
    /\ pdf.status = "open"
    /\ pdf.stage = "variables"
    /\ LET started == start_section(pdf, "Variable Details and Notes")
           written == emit(started, <<[event |-> "multi_cell",
                                       text |-> "The following pages provide details on each variable. "]>>)
       IN  pdf' = [goto(add_page(written, footer_image_path), "loop")
                     EXCEPT !.todo = SchemaKeys]
    /\ UNCHANGED <<input_df, datastructure, astype_str_keeps_na, result, seed, paths, rng, kept>>

\* One pass of the loop of add_var_summary.  An exception of a table method
\* leaves the loop, add_var_summary and create_codebook: nothing catches it.
VarSummaryStep ==
    /\ pdf.status = "open"
    /\ pdf.stage = "loop"
    /\ pdf.todo # <<>>
    /\ LET variable == Head(pdf.todo)
           table == SummaryTable(input_df, datastructure, astype_str_keeps_na,
                                 variable, rng, seed)
           categorical == dict_get(datastructure[variable], "pyType") = "category"
           freq == IF categorical
                   THEN FrequencyTable(input_df, datastructure, astype_str_keeps_na, variable)
                   ELSE [raised |-> ""]
           title == variable \o ": " \o dict_get(datastructure[variable], "label")
       IN  IF SummaryMethod(datastructure, variable) = ""
           THEN /\ pdf' = [pdf EXCEPT !.todo = Tail(@)]
                /\ rng' = rng
           ELSE /\ rng' = RngAfterSummary(input_df, datastructure, variable, rng, seed)
                /\ pdf' =
                     IF table.raised # ""
                     THEN raise(pdf, table.raised)
                     ELSE IF freq.raised # ""
                     THEN raise(emit(pdf, <<[variable |-> variable, title |-> title,
                                             summary |-> table.table]>>),
                                freq.raised)
                     ELSE [add_page(emit(pdf, Rendered(datastructure, variable,
                                                       table, freq)),
                                    footer_image_path)
                             EXCEPT !.todo = Tail(@)]
    /\ UNCHANGED <<input_df, datastructure, astype_str_keeps_na, result, seed, paths, kept>>

\* if self.keyterms != '': pdf.add_page(); self.add_keyterms(pdf), after
\* the loop of add_var_summary has ended.
AddKeyTerms ==
    /\ pdf.status = "open"
    /\ pdf.stage = "loop"
    /\ pdf.todo = <<>>
    /\ LET started == goto(start_section(add_page(pdf, footer_image_path),
                                         "Key Terms and Definitions"), "keyterms")
       IN  pdf' =
             IF keyterms = "" THEN goto(pdf, "output")
             ELSE IF ~os_path_exists(keyterms)
             THEN raise(started, "FileNotFoundError")
             ELSE goto(add_page(emit(started, <<[event |-> "multi_cell",
                                                 file |-> keyterms]>>),
                                footer_image_path), "output")
    /\ UNCHANGED <<input_df, datastructure, astype_str_keeps_na, result, seed, paths, rng, kept>>

\* The end of create_codebook: pdf.output ends the last page and writes the
\* file.
SaveCodebook ==
    /\ pdf.status = "open"
    /\ pdf.stage = "output"
    /\ pdf' = [emit(pdf, footer(footer_image_path, pdf.page)
                         \o <<[event |-> "output", file |-> "top/codebook.pdf"]>>)
                 EXCEPT !.status = "saved"]
    /\ UNCHANGED <<input_df, datastructure, astype_str_keeps_na, result, seed, paths, rng, kept>>

ReportNext ==
    \/ StartCodebook
    \/ AddProjectOverview
    \/ AddDataDictionary
    \/ StartVarSummary
    \/ VarSummaryStep
    \/ AddKeyTerms
    \/ SaveCodebook

ReportSpec == ReportInit /\ [][ReportNext]_vars

\* Codebooks of one small dataset with every combination of the three
\* paths: unset, naming a file that exists, naming one that does not (and,
\* for the footer, an existing file that is no image).
OverviewPaths == {"", "overview.md", "missing.md"}
KeytermsPaths == {"", "keyterms.md", "missing.md"}
FooterImagePaths == {"", "logo.png", "broken.png", "missing.png"}

\* A dataset with one more column, which the schema does not describe.
AddColumn(df, c, dtype, cell) ==
    [columns |-> Append(df.columns, c),
     dtypes |-> (c :> dtype) @@ df.dtypes,
     rows |-> [i \in DOMAIN df.rows |-> (c :> cell) @@ df.rows[i]]]

CodebookFrames ==
    LET base == Frame("float64", "int64",
                      <<[ownershp |-> NumCell(1, FALSE), huid |-> StrCell("a"),
                         numprec |-> IntCell(700)]>>)
        more == AddColumn(base, "geometry", "object", StrCell("POINT"))
    IN  {base, more, DropColumn(base, "numprec"),
         DropColumn(DropColumn(DropColumn(more, "huid"), "numprec"), "ownershp")}

\* The schema in which the descriptor of one column lacks a field.
WithoutField(ds, variable, field) ==
    [v \in DOMAIN ds |->
       IF v = variable THEN [f \in DOMAIN ds[v] \ {field} |-> ds[v][f]] ELSE ds[v]]

CodebookInit ==
    /\ input_df \in CodebookFrames
    /\ \E v \in {"none"} \cup DOMAIN Schema("float64", <<>>) :
          datastructure = WithoutField(WithNotes(Schema("float64", <<>>)), v, "DataType")
    /\ astype_str_keeps_na = FALSE
    /\ result = [op |-> "none"]
    /\ seed = DefaultSeed
    /\ rng = random_seed(0, seed)
    /\ projectoverview \in OverviewPaths
    /\ keyterms \in KeytermsPaths
    /\ footer_image_path \in FooterImagePaths
    /\ kept = [op |-> "none"]
    /\ pdf = [status |-> "none"]

\* table = self.create_data_dictionary_table()
CallCreateDataDictionaryTable ==
    /\ result' = [op |-> "create_data_dictionary_table",
                  ret |-> create_data_dictionary_table(input_df, datastructure)]
    /\ UNCHANGED <<input_df, datastructure, astype_str_keeps_na, seed, paths, rng, kept, pdf>>

CodebookNext ==
    \/ ReportNext
    \/ CallCreateDataDictionaryTable

CodebookSpec == CodebookInit /\ [][CodebookNext]_vars

\* Frequency tables for schemas in which the primary key and the population
\* column declare any of two units of measure, the same or not, and the
\* categorical column declares its codes.
Units == {"Housing units", "Persons"}
WithUnit(ds, variable, unit) ==
    [v \in DOMAIN ds |->
       IF v = variable THEN [ds[v] EXCEPT !["MeasureUnit"] = unit] ELSE ds[v]]

LabelsInit ==
    /\ input_df \in {df \in ReportFrames :
                       /\ ColumnSet(df) = {"huid", "ownershp", "numprec"}
                       /\ df.dtypes["ownershp"] = "float64"}
    /\ \E key_unit \in Units, pop_unit \in Units :
          datastructure =
              WithUnit(WithUnit(Schema("float64",
                                       << [Code |-> IntCell(1), Label |-> StrCell("Owned")],
                                          [Code |-> IntCell(2), Label |-> StrCell("Rented")] >>),
                                "huid", key_unit),
                       "numprec", pop_unit)
    /\ astype_str_keeps_na \in BOOLEAN
    /\ result = [op |-> "none"]
    /\ seed = DefaultSeed
    /\ rng = random_seed(0, seed)
    /\ NoPaths
    /\ kept = [op |-> "none"]
    /\ pdf = [status |-> "none"]

LabelsNext == \E pop_var \in {"", "numprec"} : CallCountFreq(pop_var)

LabelsSpec == LabelsInit /\ [][LabelsNext]_vars

----------------------------------------------------------------------------
(* PDF.get_col_widths and PDF.create_table (pdfcb_03b_pdffunctions.py)     *)
(*                                                                         *)
(* Lengths on the page are exact fractions of a millimetre,                *)
(* [num |-> n, den |-> d]; the page's available width epw is kept in       *)
(* tenths of a millimetre.  cell_width is [strategy |-> s] for the three   *)
(* named strategies, [strategy |-> "int", width |-> w] for one width and   *)
(* [strategy |-> "list", widths |-> <<...>>] for a list of widths.         *)

MaxCols == 3
MaxBody == 2
WidthSpan == 20

Rat(n, d) == [num |-> n, den |-> d]

\* FPDF.get_string_width, for a font in which every character is 2 mm wide.
get_string_width(text) == Rat(20 * Len(text), 10)

\* max over the cells of a column, as the loop of lines 174-179 finds it.
Longest(table_data, c) ==
    LET lens == {Len(table_data[r][c]) : r \in DOMAIN table_data}
        most == CHOOSE n \in lens : \A m \in lens : m <= n
    IN  get_string_width([i \in 1..most |-> "x"])

\* self.epw / len(data[0]) - 1; data[0] of an empty list raises IndexError.
EvenWidth(epw, data, table_data) ==
    IF data = <<>>
    THEN [raised |-> "IndexError"]
    ELSE [raised |-> "", scalar |-> Rat(epw - 10 * Len(data[1]), 10 * Len(data[1]))]

\* 'split-20-80' with both shares truncated on their own.
SplitWidthsTruncated(epw) ==
    <<Rat((2 * epw) \div 100, 1), Rat((8 * epw) \div 100, 1)>>
\* int(self.epw * 0.8), then int(self.epw - col_80width).  The product is
\* never below its exact value, 0.8 being stored slightly above 4/5, so the
\* truncation is that of the exact product.
SplitWidths(epw) ==
    LET col_80width == (8 * epw) \div 100
        col_20width == (epw - 10 * col_80width) \div 10
    IN  <<Rat(col_20width, 1), Rat(col_80width, 1)>>

get_col_widths(epw, cell_width, data, table_data) ==
    IF cell_width.strategy = "even"
    THEN EvenWidth(epw, data, table_data)
    ELSE IF cell_width.strategy = "uneven"
    THEN [raised |-> "",
          list |-> [c \in DOMAIN table_data[1] |->
                      LET longest == Longest(table_data, c)
                      IN  Rat(longest.num + 4 * longest.den, longest.den)]]
    ELSE IF cell_width.strategy = "split-20-80"
    THEN [raised |-> "", list |-> SplitWidths(epw)]
    ELSE IF cell_width.strategy = "int"
    THEN [raised |-> "", scalar |-> Rat(cell_width.width, 1)]
    ELSE [raised |-> "", list |-> [i \in DOMAIN cell_width.widths |->
                                     Rat(cell_width.widths[i], 1)]]

\* col_width[i] past the end of the list.
IndexError == [raised |-> "IndexError"]

\* isinstance(col_width, list)
IsList(col_width) == "list" \in DOMAIN col_width

\* The width of header cell i (lines 270-273) and of body cell j (lines
\* 295-298); an index past the end of the list raises IndexError.
width(col_width, i) ==
    IF IsList(col_width)
    THEN IF i \in DOMAIN col_width.list THEN col_width.list[i] ELSE IndexError
    ELSE col_width.scalar
\* Every body cell as wide as the first column.
first_col_width(col_width, j) ==
    IF IsList(col_width) THEN col_width.list[1] ELSE col_width.scalar
adjusted_col_width(col_width, j) ==
    IF IsList(col_width)
    THEN IF j \in DOMAIN col_width.list THEN col_width.list[j] ELSE IndexError
    ELSE col_width.scalar

\* What create_table does to the document, in order: the call of
\* get_col_widths, then one multi_cell per title, header cell and body
\* cell, with the rules and line feeds between them.  stop is the number of
\* multi_cell calls made before an IndexError, -1 for none.
CellsOfRow(part, r, row, col_width) ==
    [j \in DOMAIN row |->
        [event |-> "multi_cell", part |-> part, row |-> r, col |-> j,
         text |-> row[j],
         w |-> IF part = "header" THEN width(col_width, j)
               ELSE adjusted_col_width(col_width, j)]]

RECURSIVE Flatten(_)
Flatten(seqs) == IF seqs = <<>> THEN <<>> ELSE Head(seqs) \o Flatten(Tail(seqs))

\* The calls up to the first one that raises.
UntilRaise(events) ==
    LET bad == {k \in DOMAIN events :
                  "w" \in DOMAIN events[k] /\ events[k].w = IndexError}
    IN  IF bad = {} THEN events
        ELSE SubSeq(events, 1, (CHOOSE k \in bad : \A m \in bad : k <= m) - 1)

create_table_events(epw, table_data, title, cell_width) ==
    LET header == table_data[1]
        data == Tail(table_data)
        got == get_col_widths(epw, cell_width, data, table_data)
        call == <<[event |-> "get_col_widths", cell_width |-> cell_width, ret |-> got]>>
        title_cells ==
            IF title # ""
            THEN <<[event |-> "multi_cell", part |-> "title", row |-> 0, col |-> 0,
                    text |-> title, w |-> Rat(0, 1)],
                   [event |-> "ln"]>>
            ELSE <<>>
        header_cells ==
            CellsOfRow("header", 0, header, got)
            \o <<[event |-> "ln"], [event |-> "line"], [event |-> "line"]>>
        body_cells ==
            Flatten([r \in DOMAIN data |->
                       CellsOfRow("data", r, data[r], got) \o <<[event |-> "ln"]>>])
        all == title_cells \o header_cells \o body_cells \o <<[event |-> "line"]>>
    IN  IF got.raised # ""
        THEN [raised |-> got.raised, events |-> call]
        ELSE IF UntilRaise(all) # all
        THEN [raised |-> "IndexError", events |-> call \o UntilRaise(all)]
        ELSE [raised |-> "", events |-> call \o all]

\* Tables: a header of 1..MaxCols columns and 0..MaxBody body rows of the
\* same columns, as the list of lists made from a DataFrame.
HeaderTexts ==
    <<"Code", "Label", "Count of Housing units", "Percent Housing units",
      "Sum of Persons", "Percent Persons">>
BodyTexts == <<"1", "Owned", "1,200", "100.00%">>
TableOf(cols, body) ==
    <<[j \in 1..cols |-> HeaderTexts[j]]>>
    \o [r \in 1..body |-> [j \in 1..cols |-> BodyTexts[((r + j) % 4) + 1]]]
Tables == {TableOf(c, b) : c \in 1..MaxCols, b \in 0..MaxBody}

\* The widths add_datadictionary and add_var_summary pass, and the named
\* strategies.
CellWidthArgs ==
    {[strategy |-> s] : s \in {"even", "uneven", "split-20-80"}}
    \cup {[strategy |-> "int", width |-> 30]}
    \cup {[strategy |-> "list", widths |-> <<12, 30, 24, 24>>]}

\* Available widths, in tenths of a millimetre, from 100 mm on.
Epws == {1000 + k : k \in 0..WidthSpan}

TableInit ==
    /\ input_df = Frame("float64", "int64", <<>>)
    /\ datastructure = Schema("float64", <<>>)
    /\ astype_str_keeps_na = FALSE
    /\ result = [op |-> "none"]
    /\ seed = DefaultSeed
    /\ rng = random_seed(0, seed)
    /\ NoPaths
    /\ kept = [op |-> "none"]
    /\ \E epw \in Epws : pdf = [status |-> "open", epw |-> epw, log |-> <<>>]

\* A direct call of get_col_widths on a document, once per run.
CallGetColWidths ==
    /\ result.op = "none"
    /\ \E cell_width \in CellWidthArgs, table_data \in Tables :
          result' = [op |-> "get_col_widths", cell_width |-> cell_width,
                     table_data |-> table_data,
                     ret |-> get_col_widths(pdf.epw, cell_width, Tail(table_data),
                                            table_data)]
    /\ UNCHANGED <<input_df, datastructure, astype_str_keeps_na, seed, paths, rng, kept, pdf>>

\* One table rendered into the document, once per run; an IndexError leaves
\* create_table with the cells rendered so far.
CallCreateTable ==
    /\ pdf.status = "open"
    /\ pdf.log = <<>>
    /\ \E cell_width \in CellWidthArgs, table_data \in Tables, title \in {"", "huid: Housing Unit ID"} :
          LET made == create_table_events(pdf.epw, table_data, title, cell_width)
          IN  /\ pdf' = [pdf EXCEPT !.log = made.events,
                                    !.status = IF made.raised = "" THEN "open" ELSE "raised"]
              /\ result' = [op |-> "create_table", cell_width |-> cell_width,
                            table_data |-> table_data, raised |-> made.raised]
    /\ UNCHANGED <<input_df, datastructure, astype_str_keeps_na, seed, paths, rng, kept>>

TableNext ==
    \/ CallGetColWidths
    \/ CallCreateTable

TableSpec == TableInit /\ [][TableNext]_vars

----------------------------------------------------------------------------
(* Properties of the category frequency table *)

FreqCall == result.op = "categorical_countfreq_table"
FreqReturned == FreqCall /\ result.ret.raised = ""
FreqRows == result.ret.table.rows

CountName == "Count of " \o datastructure["huid"]["MeasureUnit"]
PercentName == "Percent " \o datastructure["huid"]["MeasureUnit"]
SumName == "Sum of " \o datastructure["numprec"]["MeasureUnit"]
PopPercentName == "Percent " \o datastructure["numprec"]["MeasureUnit"]

\* The codes the descriptor declares.
DeclaredCodes ==
    IF "categories_dict" \in DOMAIN datastructure["ownershp"]
    THEN {datastructure["ownershp"]["categories_dict"][i]["Code"] :
            i \in DOMAIN datastructure["ownershp"]["categories_dict"]}
    ELSE {}

\* The rows that remain after the casts and the drop, with their codes.
Remaining == Recast(input_df, "ownershp", astype_str_keeps_na).df.rows
RemainingWith(code) == {j \in DOMAIN Remaining : Remaining[j]["ownershp"] = code}
\* Of those, the ones in which the primary key is present.
Counted(code) == {j \in RemainingWith(code) : Remaining[j]["huid"] # NA}
CountedAll == {j \in DOMAIN Remaining : Remaining[j]["huid"] # NA}

\* The rows of the dataset whose target value is not missing.
Valid == {j \in DOMAIN input_df.rows : input_df.rows[j]["ownershp"] # NA}

\* C1: the frequency table has at least as many rows as the descriptor
\* declares codes, and every declared code is the Code of exactly one row,
\* also when no row of the dataset carries it.
C1_DeclaredCodesOnce ==
    FreqReturned =>
        /\ Len(FreqRows) >= Cardinality(DeclaredCodes)
        /\ \A c \in DeclaredCodes :
              Cardinality({i \in DOMAIN FreqRows : FreqRows[i]["Code"] = c}) = 1

\* A table was returned for a dataset that carries some declared code and
\* lacks another.
C1_Witness ==
    /\ FreqReturned
    /\ \E c \in DeclaredCodes : RemainingWith(c) = {}
    /\ \E c \in DeclaredCodes : RemainingWith(c) # {}

\* The dataset without the rows whose target value is missing.
WithoutMissing(df) ==
    [df EXCEPT !.rows = SelectSeq(df.rows, LAMBDA r : r["ownershp"] # NA)]

\* C2: a row whose target value is missing is dropped before counting: the
\* call returns what it returns for the dataset without those rows (no count,
\* no code row and no share of a denominator comes from them), for numeric
\* and for text codes.
C2_MissingRowsDropped ==
    FreqCall =>
        result.ret = categorical_countfreq_table(
                        WithoutMissing(input_df), datastructure, astype_str_keeps_na,
                        "ownershp", "huid", result.pop_var)

\* A stored value equals a code: a number equals the integer code of the same
\* value, a text equals the same text (or the integer it spells).
ValueIs(cell, code) ==
    CASE cell.t = "num" -> code.t = "int" /\ ~cell.half /\ cell.whole = code.n
      [] cell.t = "str" -> \/ (code.t = "str" /\ code.s = cell.s)
                           \/ (code.t = "int" /\ cell.s \in NumericText
                               /\ TextValue[cell.s] = code.n)
      [] OTHER -> FALSE

\* The worked example of the spec: codes {1: Owned, 2: Rented}, values
\* [1, 1, 2, None], primary key present in all rows.
ExampleCall ==
    /\ FreqCall /\ result.pop_var = ""
    /\ DeclaredCodes = {IntCell(1), IntCell(2)}
    /\ Len(input_df.rows) = 4
    /\ [j \in 1..4 |-> input_df.rows[j]["ownershp"]]
          = <<NumCell(1, FALSE), NumCell(1, FALSE), NumCell(2, FALSE), NA>>
    /\ \A j \in 1..4 : input_df.rows[j]["huid"] # NA

ExampleTable ==
    /\ result.ret.raised = ""
    /\ [i \in DOMAIN FreqRows |->
          <<FreqRows[i]["Code"], FreqRows[i]["Label"],
            FreqRows[i][CountName], FreqRows[i][PercentName]>>]
          = << <<IntCell(1), StrCell("Owned"), StrCell("2"), StrCell("66.67%")>>,
               <<IntCell(2), StrCell("Rented"), StrCell("1"), StrCell("33.33%")>> >>

C4_UndeclaredLabelIsCode ==
    FreqReturned =>
        \A i \in DOMAIN FreqRows :
            FreqRows[i]["Code"] \notin DeclaredCodes
                => FreqRows[i]["Label"] = FreqRows[i]["Code"]

\* C5: a declared code that no remaining row carries has count "0" and
\* percent "0.00%", and with a population column sum "0" and population
\* percent "0.00%".
C5_ZeroFilled ==
    FreqReturned =>
        \A i \in DOMAIN FreqRows :
            (FreqRows[i]["Code"] \in DeclaredCodes /\ RemainingWith(FreqRows[i]["Code"]) = {})
            => /\ FreqRows[i][CountName] = StrCell("0")
               /\ FreqRows[i][PercentName] = StrCell("0.00%")
               /\ result.pop_var # "" =>
                     /\ FreqRows[i][SumName] = StrCell("0")
                     /\ FreqRows[i][PopPercentName] = StrCell("0.00%")

\* A table with a population column was returned that has a declared code
\* no remaining row carries, beside a code that rows carry.
C5_Witness ==
    /\ FreqReturned /\ result.pop_var # ""
    /\ \E c \in DeclaredCodes : RemainingWith(c) = {}
    /\ Remaining # <<>>

----------------------------------------------------------------------------
(* Reading formatted cells back *)

Digits == <<"0", "1", "2", "3", "4", "5", "6", "7", "8", "9">>
IsDigit(ch) == \E d \in DOMAIN Digits : Digits[d] = ch
DigitValue(ch) == (CHOOSE d \in DOMAIN Digits : Digits[d] = ch) - 1
CharAt(s, i) == SubSeq(s, i, i)

IsDigits(s) == Len(s) > 0 /\ \A i \in 1..Len(s) : IsDigit(CharAt(s, i))

RECURSIVE DigitsValue(_)
DigitsValue(s) ==
    IF Len(s) = 0 THEN 0
    ELSE 10 * DigitsValue(SubSeq(s, 1, Len(s) - 1)) + DigitValue(CharAt(s, Len(s)))

\* A whole number with thousands separators and no decimals: 1 to 3 digits,
\* then groups of a comma and 3 digits.
RECURSIVE IsGroupedWhole(_)
IsGroupedWhole(s) ==
    IF Len(s) <= 3 THEN IsDigits(s) /\ (Len(s) > 1 => CharAt(s, 1) # "0")
    ELSE /\ CharAt(s, Len(s) - 3) = ","
         /\ IsDigits(SubSeq(s, Len(s) - 2, Len(s)))
         /\ IsGroupedWhole(SubSeq(s, 1, Len(s) - 4))

RECURSIVE GroupedValue(_)
GroupedValue(s) ==
    IF Len(s) <= 3 THEN DigitsValue(s)
    ELSE 1000 * GroupedValue(SubSeq(s, 1, Len(s) - 4))
         + DigitsValue(SubSeq(s, Len(s) - 2, Len(s)))

\* The number a count or sum cell shows, printed with or without ".0";
\* -1 if it shows none.
ShownNumber(s) ==
    IF IsGroupedWhole(s) THEN GroupedValue(s)
    ELSE IF Len(s) > 2 /\ SubSeq(s, Len(s) - 1, Len(s)) = ".0"
            /\ IsGroupedWhole(SubSeq(s, 1, Len(s) - 2))
    THEN GroupedValue(SubSeq(s, 1, Len(s) - 2))
    ELSE -1

\* The hundredths of a percent that a cell "d.dd%" shows; -1 if it shows none.
ShownPercent(s) ==
    IF /\ Len(s) >= 5
       /\ CharAt(s, Len(s)) = "%"
       /\ CharAt(s, Len(s) - 3) = "."
       /\ IsDigits(SubSeq(s, Len(s) - 2, Len(s) - 1))
       /\ IsDigits(SubSeq(s, 1, Len(s) - 4))
    THEN 100 * DigitsValue(SubSeq(s, 1, Len(s) - 4))
         + DigitsValue(SubSeq(s, Len(s) - 2, Len(s) - 1))
    ELSE -1

RECURSIVE SumFn(_)
SumFn(f) ==
    IF DOMAIN f = {} THEN 0
    ELSE LET x == CHOOSE y \in DOMAIN f : TRUE
         IN  f[x] + SumFn([y \in DOMAIN f \ {x} |-> f[y]])

\* The percents of a column add up to 100.00%, each row within half a
\* hundredth of a percent of its share.
SumsTo100(col) ==
    LET shown(i) == ShownPercent(FreqRows[i][col].s)
        off == SumFn([i \in DOMAIN FreqRows |-> shown(i)]) - 10000
    IN  /\ \A i \in DOMAIN FreqRows : shown(i) >= 0
        /\ 2 * off <= Len(FreqRows)
        /\ 2 * (0 - off) <= Len(FreqRows)

\* The population of a row, a missing one counting nothing.
Population(row) == IF row["numprec"] = NA THEN 0 ELSE Amount(row["numprec"])
NoPopulationMissing == \A j \in DOMAIN input_df.rows : input_df.rows[j]["numprec"] # NA
RemainingPopulation ==
    SumFn([j \in DOMAIN Remaining |-> Population(Remaining[j])])

\* C7 as claimed: with at least one non-missing value the percent column
\* sums to 100.00% up to rounding, and so does the population percent column
\* when a population column without missing values is supplied.
C7_PercentsSumTo100 ==
    (FreqReturned /\ Valid # {}) =>
        /\ SumsTo100(PercentName)
        /\ (result.pop_var # "" /\ NoPopulationMissing) => SumsTo100(PopPercentName)

\* C7, amended: with at least one remaining row in which the primary key is
\* present the percent column sums to 100.00% up to rounding; the population
\* percent column does when a population column without missing values is
\* supplied and the population of the remaining rows is not zero.
C7_PercentsOfNonzeroTotalsSumTo100 ==
    FreqReturned =>
        /\ CountedAll # {} => SumsTo100(PercentName)
        /\ (result.pop_var # "" /\ NoPopulationMissing /\ RemainingPopulation # 0)
              => SumsTo100(PopPercentName)

\* A table with population columns was returned whose rounded percents do
\* not add up to exactly 100.00%.
C7_Witness ==
    /\ FreqReturned /\ result.pop_var # ""
    /\ CountedAll # {} /\ NoPopulationMissing /\ RemainingPopulation # 0
    /\ SumFn([i \in DOMAIN FreqRows |-> ShownPercent(FreqRows[i][PercentName].s)]) # 10000
    /\ SumFn([i \in DOMAIN FreqRows |-> ShownPercent(FreqRows[i][PopPercentName].s)]) # 10000

\* The code under which the tabulator files a non-missing value: a column
\* that casts to numbers is truncated to integers, another is kept as text.
CodeOfValue(cell) ==
    IF \A j \in DOMAIN input_df.rows : float_ok(input_df.rows[j]["ownershp"])
    THEN astype_int(astype_float(cell)) ELSE cell

ValidWith(code) == {j \in Valid : CodeOfValue(input_df.rows[j]["ownershp"]) = code}
PopulationOf(S) == SumFn([j \in S |-> Population(input_df.rows[j])])

\* C8: with a population column every row carries the sum (not the count) of
\* the population over the non-missing rows with its code, and that sum
\* divided by the total of these sums.
C8_PopulationCells ==
    (FreqReturned /\ result.pop_var # "") =>
        \A i \in DOMAIN FreqRows :
            /\ ShownNumber(FreqRows[i][SumName].s)
                  = PopulationOf(ValidWith(FreqRows[i]["Code"]))
            /\ PopulationOf(Valid) # 0 =>
                  FreqRows[i][PopPercentName]
                     = StrCell(FormatPercent(PopulationOf(ValidWith(FreqRows[i]["Code"])),
                                             PopulationOf(Valid)))

\* The cells that show case counts, frequency counts and population sums.
CountCells ==
    IF result.op = "none" \/ result.ret.raised # "" THEN {}
    ELSE IF FreqCall
    THEN {FreqRows[i][CountName].s : i \in DOMAIN FreqRows}
         \cup (IF result.pop_var = "" THEN {}
               ELSE {FreqRows[i][SumName].s : i \in DOMAIN FreqRows})
    ELSE {result.ret.table[i][2] : i \in 2..4}

\* C9: every count value is rendered with thousands separators and zero
\* decimal places, whatever the stored numeric type of the column.
C9_CountsAreGroupedWholes == \A s \in CountCells : IsGroupedWhole(s)

SummaryReturned ==
    /\ result.op \in {"numeric_table", "string_table", "categorical_toptable"}
    /\ result.ret.raised = ""
SummarizedColumn == Column(input_df, result.variable)

\* C10: in every summary 'total cases' is the number of rows, 'valid cases'
\* the number of rows whose value is not missing and 'missing cases' the
\* number of rows whose value is missing.
C10_CaseCounts ==
    SummaryReturned =>
        /\ result.ret.table[2][1] = "total cases"
        /\ ShownNumber(result.ret.table[2][2]) = Len(SummarizedColumn)
        /\ result.ret.table[3][1] = "valid cases"
        /\ ShownNumber(result.ret.table[3][2]) = count(SummarizedColumn)
        /\ result.ret.table[4][1] = "missing cases"
        /\ ShownNumber(result.ret.table[4][2]) = isna_sum(SummarizedColumn)

----------------------------------------------------------------------------
(* The summaries *)

NumericCall == result.op = "numeric_table"
SummaryRowLabels == [i \in DOMAIN result.ret.table |-> result.ret.table[i][1]]

\* C11: numeric_table returns exactly 15 rows with the characteristic labels
\* in the fixed order, for every numeric column and every descriptor.
C11_NumericRows ==
    NumericCall =>
        /\ result.ret.raised = ""
        /\ SummaryRowLabels =
              <<"variable type", "total cases", "valid cases", "missing cases",
                "unit of measure", "unit of analysis", "range", "mean", "median",
                "standard deviation", "10th percentile", "25th percentile",
                "50th percentile", "75th percentile", "90th percentile">>

\* numeric_table returned for a column with values and a missing value under
\* a descriptor that lacks a field.
C11_Witness ==
    /\ NumericCall /\ result.ret.raised = ""
    /\ count(SummarizedColumn) > 1 /\ isna_sum(SummarizedColumn) > 0
    /\ "MeasureUnit" \notin DOMAIN datastructure["numprec"]

\* The hundredths that a cell "d,ddd.dd" shows; -1 if it shows no such number.
ShownFixed2(s) ==
    IF /\ Len(s) >= 4
       /\ CharAt(s, Len(s) - 2) = "."
       /\ IsDigits(SubSeq(s, Len(s) - 1, Len(s)))
       /\ IsGroupedWhole(SubSeq(s, 1, Len(s) - 3))
    THEN 100 * GroupedValue(SubSeq(s, 1, Len(s) - 3))
         + DigitsValue(SubSeq(s, Len(s) - 1, Len(s)))
    ELSE -1

\* The two bounds that a range cell "minimum value: X to  maximum value: Y"
\* shows, as texts; <<>> if the cell has another form.
RangeLead == "minimum value: "
RangeLink == " to  maximum value: "
RangeTexts(s) ==
    LET cuts == {k \in (Len(RangeLead) + 1)..(Len(s) - Len(RangeLink)) :
                    SubSeq(s, k, k + Len(RangeLink) - 1) = RangeLink}
    IN  IF Len(s) > Len(RangeLead) + Len(RangeLink)
           /\ SubSeq(s, 1, Len(RangeLead)) = RangeLead /\ cuts # {}
        THEN LET k == CHOOSE c \in cuts : TRUE
             IN  <<SubSeq(s, Len(RangeLead) + 1, k - 1),
                   SubSeq(s, k + Len(RangeLink), Len(s))>>
        ELSE <<>>

Detail(i) == result.ret.table[i][2]
ShownMin == ShownFixed2(RangeTexts(Detail(7))[1])
ShownMax == ShownFixed2(RangeTexts(Detail(7))[2])
ShownPercentiles == [i \in 1..5 |-> ShownFixed2(Detail(10 + i))]

\* C12: for a numeric column with at least one non-missing value the five
\* percentiles are non-decreasing and each lies between the reported minimum
\* and the reported maximum.
C12_PercentilesOrdered ==
    (NumericCall /\ count(SummarizedColumn) > 0) =>
        /\ RangeTexts(Detail(7)) # <<>>
        /\ ShownMin >= 0
        /\ \A i \in 1..5 : ShownMin <= ShownPercentiles[i] /\ ShownPercentiles[i] <= ShownMax
        /\ \A i \in 1..4 : ShownPercentiles[i] <= ShownPercentiles[i + 1]

\* A summary whose percentiles all differ and lie strictly inside the range,
\* for a column whose rows are not in ascending order.
C12_Witness ==
    /\ NumericCall /\ count(SummarizedColumn) > 0
    /\ \A i \in 1..4 : ShownPercentiles[i] < ShownPercentiles[i + 1]
    /\ ShownMin < ShownPercentiles[1] /\ ShownPercentiles[5] < ShownMax
    /\ UnsortedValues(SummarizedColumn) # SortedValues(SummarizedColumn)

\* The non-missing values of the summarized column, as a function of the row.
PresentRows == {j \in DOMAIN SummarizedColumn : SummarizedColumn[j] # NA}
ValueAt(j) == Amount(SummarizedColumn[j])
\* The k-th smallest of them.
OrderStatistic(k) ==
    CHOOSE v \in {ValueAt(j) : j \in PresentRows} :
        /\ Cardinality({j \in PresentRows : ValueAt(j) < v}) < k
        /\ Cardinality({j \in PresentRows : ValueAt(j) <= v}) >= k

\* C13: 'mean' is the arithmetic mean of the non-missing values, 'median' the
\* linearly interpolated middle value, 'range' the smallest and the largest
\* non-missing value, each with exactly two decimals; for [10,20,30,40,50]
\* mean "30.00", median "30.00", min "10.00", max "50.00".
C13_MeanMedianRange ==
    /\ (NumericCall /\ PresentRows # {}) =>
          LET n == Cardinality(PresentRows)
              total == SumFn([j \in PresentRows |-> ValueAt(j)])
              shown_mean == ShownFixed2(Detail(8))
              shown_median == ShownFixed2(Detail(9))
          IN  /\ shown_mean >= 0
              /\ 2 * (100 * total - shown_mean * n) <= n
              /\ 2 * (shown_mean * n - 100 * total) <= n
              /\ shown_median
                    = 50 * (OrderStatistic((n + 1) \div 2) + OrderStatistic((n + 2) \div 2))
              /\ RangeTexts(Detail(7)) # <<>>
              /\ ShownMin = 100 * OrderStatistic(1)
              /\ ShownMax = 100 * OrderStatistic(n)
    /\ (NumericCall /\ SummarizedColumn = [i \in 1..5 |-> NumCell(10 * i, FALSE)]) =>
          /\ Detail(8) = "30.00"
          /\ Detail(9) = "30.00"
          /\ Detail(7) = "minimum value: 10.00 to  maximum value: 50.00"

\* The summary of [10, 20, 30, 40, 50] was made.
C13_Witness ==
    /\ NumericCall
    /\ SummarizedColumn = [i \in 1..5 |-> NumCell(10 * i, FALSE)]

StringCall == result.op = "string_table"
StringReturned == StringCall /\ result.ret.raised = ""

\* The rows in which a value (the missing marker counts as one) appears first.
FirstRows ==
    {j \in DOMAIN SummarizedColumn :
        \A i \in 1..(j - 1) : SummarizedColumn[i] # SummarizedColumn[j]}
\* The m-th distinct value in order of first appearance, as the table shows it.
DistinctShown(m) ==
    LET j == CHOOSE r \in FirstRows : Cardinality({i \in FirstRows : i <= r}) = m
    IN  IF SummarizedColumn[j] = NA THEN "nan" ELSE SummarizedColumn[j].s
ExamplesOf(ret) == [i \in 1..4 |-> ret.table[9 + i][2]]

\* C14: string_table emits exactly four examples for a column with at least
\* one row: with four or more distinct values, pairwise distinct members of
\* the distinct values; with k < 4, example i is the ((i-1) mod k)-th distinct
\* value in order of first appearance (counting from 0).
C14_FourExamples ==
    (StringCall /\ Len(SummarizedColumn) >= 1) =>
        /\ result.ret.raised = ""
        /\ Len(result.ret.table) = 13
        /\ \A i \in 1..4 : result.ret.table[9 + i][1] = "example " \o ToString(i)
        /\ LET k == Cardinality(FirstRows)
               examples == ExamplesOf(result.ret)
           IN  IF k >= 4
               THEN /\ \A i, j \in 1..4 : i # j => examples[i] # examples[j]
                    /\ \A i \in 1..4 : \E m \in 1..k : examples[i] = DistinctShown(m)
               ELSE \A i \in 1..4 : examples[i] = DistinctShown(((i - 1) % k) + 1)

\* Examples were drawn from a column with more than four distinct values,
\* one of them the missing marker.
C14_Witness ==
    /\ StringReturned
    /\ Cardinality(FirstRows) > 4
    /\ \E j \in DOMAIN SummarizedColumn : SummarizedColumn[j] = NA

\* C15: two calls of string_table with the same seed and column return the
\* same four examples in the same order, whatever was drawn from the
\* generator or summarized in between: a call returns the examples of the
\* table the caller kept from an earlier call.
C15_SameExamples ==
    (StringReturned /\ kept.op = "string_table") =>
        ExamplesOf(result.ret) = ExamplesOf(kept.ret)

\* A later call sampled the column ["a","b","c","d","e"] with the default seed
\* after finding the generator in another state than the call whose table
\* was kept.
C15_Witness ==
    /\ StringReturned /\ kept.op = "string_table"
    /\ seed = DefaultSeed
    /\ SummarizedColumn = [i \in 1..5 |-> StrCell(Letters[i])]
    /\ result.rng_before # kept.rng_before

\* Text a before text b in lexicographic order of the characters (digits
\* before upper case before lower case), a proper prefix first.
CharOrder == <<"0", "1", "A", "B", "N", "a", "b", "c", "d", "e", "f", "g", "h", "n", "o">>
CharRank(ch) == CHOOSE i \in DOMAIN CharOrder : CharOrder[i] = ch
LexLeq(a, b) ==
    \/ a = b
    \/ \E k \in 1..Len(b) :
          /\ k <= Len(a) + 1
          /\ \A i \in 1..(k - 1) : CharAt(a, i) = CharAt(b, i)
          /\ (k = Len(a) + 1 \/ CharRank(CharAt(a, k)) < CharRank(CharAt(b, k)))

\* The stringified values of the summarized column when `missing` is the
\* text that stands for a missing value.
Stringified(missing) ==
    {IF SummarizedColumn[j] = NA THEN missing ELSE SummarizedColumn[j].s :
        j \in DOMAIN SummarizedColumn}
LexMin(S) == CHOOSE x \in S : \A y \in S : LexLeq(x, y)
LexMax(S) == CHOOSE x \in S : \A y \in S : LexLeq(y, x)
LengthsBy(missing) ==
    /\ Detail(8) = ToString(Len(LexMin(Stringified(missing))))
    /\ Detail(9) = ToString(Len(LexMax(Stringified(missing))))

C17_MissingIsZeroForLengths ==
    StringReturned =>
        /\ LengthsBy("0")
        /\ \A i \in 1..4 :
              LET k == Cardinality(FirstRows)
              IN  k < 4 => ExamplesOf(result.ret)[i] = DistinctShown(((i - 1) % k) + 1)

TopCall == result.op = "categorical_toptable"
TopRowLabels ==
    <<"variable type", "total cases", "valid cases", "missing cases",
      "unit of measure", "unit of analysis", "range">>

\* A value that casts to a number: a number, a missing value, a numeric text.
CastsToNumber(c) == c.t \in {"na", "num", "int"} \/ (c.t = "str" /\ c.s \in NumericText)
AllCast == \A j \in DOMAIN SummarizedColumn : CastsToNumber(SummarizedColumn[j])
IsNumber(s) == ShownNumber(s) >= 0
IsNA(s) == s = "NA"
IsNan(s) == s = "nan"
BoundIs(kind, s) ==
    CASE kind = "number" -> IsNumber(s)
      [] kind = "NA" -> IsNA(s)
      [] OTHER -> IsNan(s)
BoundsAre(kind) ==
    /\ RangeTexts(Detail(7)) # <<>>
    /\ BoundIs(kind, RangeTexts(Detail(7))[1])
    /\ BoundIs(kind, RangeTexts(Detail(7))[2])

\* C18 as claimed: categorical_toptable never raises because of the values;
\* the range reports "NA" for both bounds if the cast fails for any value and
\* two numbers if it succeeds for all; the seven rows are emitted either way.
C18_RangeNAOrNumeric ==
    TopCall =>
        /\ result.ret.raised = ""
        /\ SummaryRowLabels = TopRowLabels
        /\ IF AllCast THEN BoundsAre("number") ELSE BoundsAre("NA")

\* C18, amended: as claimed, but when the cast succeeds the bounds are two
\* numbers only if some value is not missing; for a column without
\* non-missing values (an empty one, too) both bounds are "nan".
C18_RangeNAOrNumericOrNan ==
    TopCall =>
        /\ result.ret.raised = ""
        /\ SummaryRowLabels = TopRowLabels
        /\ IF ~AllCast THEN BoundsAre("NA")
           ELSE IF count(SummarizedColumn) > 0 THEN BoundsAre("number")
           ELSE BoundsAre("nan")

\* The summary of a column that holds a numeric text and a text that does
\* not cast.
C18_Witness ==
    /\ TopCall
    /\ ~AllCast
    /\ \E j \in DOMAIN SummarizedColumn :
          SummarizedColumn[j].t = "str" /\ CastsToNumber(SummarizedColumn[j])

\* The labels of the rows of each summary under a complete descriptor.
LabelsOf(op) ==
    CASE op = "numeric_table" ->
            <<"variable type", "total cases", "valid cases", "missing cases",
              "unit of measure", "unit of analysis", "range", "mean", "median",
              "standard deviation", "10th percentile", "25th percentile",
              "50th percentile", "75th percentile", "90th percentile">>
      [] op = "string_table" ->
            <<"variable type", "total cases", "valid cases", "missing cases",
              "unit of measure", "unit of analysis", "unique values", "minimum length",
              "maximum length", "example 1", "example 2", "example 3", "example 4">>
      [] op = "categorical_toptable" -> TopRowLabels

\* The value of a descriptor field of the summarized column, the empty string
\* if the descriptor lacks it.
FieldOrEmpty(f) ==
    IF f \in DOMAIN datastructure[result.variable]
    THEN datastructure[result.variable][f] ELSE ""

\* C19: for every subset of DataType, MeasureUnit and AnalysisUnit that the
\* descriptor lacks, each summary has the rows of a complete descriptor in
\* the same order, the affected values rendered from the empty string, and
\* raises no error (string_table raises on a column without rows whatever the
\* descriptor).
C19_AbsentFieldsAreEmpty ==
    (result.op \in {"numeric_table", "string_table", "categorical_toptable"}
       /\ ~(StringCall /\ Len(SummarizedColumn) = 0)) =>
        /\ result.ret.raised = ""
        /\ SummaryRowLabels = LabelsOf(result.op)
        /\ Detail(1) = (CASE result.op = "numeric_table" ->
                                "numeric (" \o FieldOrEmpty("DataType") \o ")"
                          [] result.op = "categorical_toptable" ->
                                "categorical (" \o FieldOrEmpty("DataType") \o ")"
                          [] result.op = "string_table" -> "string")
        /\ Detail(5) = FieldOrEmpty("MeasureUnit")
        /\ Detail(6) = FieldOrEmpty("AnalysisUnit")

\* A summary made under a descriptor that lacks all three fields.
C19_Witness ==
    /\ SummaryReturned
    /\ DOMAIN datastructure[result.variable] \cap CharacteristicFields = {}
    /\ Detail(5) = "" /\ Detail(6) = ""

----------------------------------------------------------------------------
(* C20 *)

ReportEnded == pdf.status \in {"saved", "raised"}
AbsentColumns == {SchemaKeys[k] : k \in DOMAIN SchemaKeys} \ ColumnSet(input_df)
HasSummary(v) ==
    \E k \in DOMAIN pdf.content :
        /\ "summary" \in DOMAIN pdf.content[k]
        /\ pdf.content[k].variable = v

\* C20: when the schema names a column the dataset lacks, the summaries of
\* all other schema columns, before and after the absent one, are still
\* produced and the report is still completed.
C20_AbsentColumnConfined ==
    (ReportEnded /\ AbsentColumns # {}) =>
        /\ \A k \in DOMAIN SchemaKeys :
              SchemaKeys[k] \notin AbsentColumns => HasSummary(SchemaKeys[k])
        /\ pdf.status = "saved"

\* The walk over a complete dataset whose tables can all be built ends with
\* the report saved and a summary for every schema column.
CompleteReportSaved ==
    (ReportEnded /\ AbsentColumns = {} /\ pdf.status = "saved") =>
        \A k \in DOMAIN SchemaKeys : HasSummary(SchemaKeys[k])

----------------------------------------------------------------------------
(* C21 - C23 *)

WidthsCall(strategy) ==
    result.op = "get_col_widths" /\ result.cell_width.strategy = strategy
\* Whole millimetres in a share of tenths/10 of the available width.
TruncatedShare(tenths) == (tenths * pdf.epw) \div 100

\* C21 as claimed: 'split-20-80' returns, for every available width, 20% of
\* it truncated to an integer and 80% of it truncated to an integer;
\* [20, 80] for a width of 100.
C21_SplitIsTruncatedShares ==
    WidthsCall("split-20-80") =>
        /\ result.ret.raised = ""
        /\ result.ret.list = <<Rat(TruncatedShare(2), 1), Rat(TruncatedShare(8), 1)>>
        /\ pdf.epw = 1000 => result.ret.list = <<Rat(20, 1), Rat(80, 1)>>

\* C21, amended: the second width is 80% of the available width truncated
\* to an integer; the first is what the second leaves of the available
\* width, truncated to an integer, which is 20% truncated or one more;
\* [20, 80] for a width of 100.
C21_SplitIsTruncatedRest ==
    WidthsCall("split-20-80") =>
        /\ result.ret.raised = ""
        /\ Len(result.ret.list) = 2
        /\ LET first == result.ret.list[1]
               second == result.ret.list[2]
           IN  /\ first.den = 1 /\ second.den = 1
               /\ second.num = TruncatedShare(8)
               /\ 10 * first.num <= pdf.epw - 10 * second.num
               /\ pdf.epw - 10 * second.num < 10 * first.num + 10
               /\ first.num \in {TruncatedShare(2), TruncatedShare(2) + 1}
        /\ pdf.epw = 1000 => result.ret.list = <<Rat(20, 1), Rat(80, 1)>>

\* A split of a width whose 20% column is not 20% truncated: 101 mm gives
\* [21, 80].
C21_Witness ==
    /\ WidthsCall("split-20-80")
    /\ pdf.epw = 1010
    /\ result.ret.list = <<Rat(21, 1), Rat(80, 1)>>

\* C22: 'even' returns, for every table with a header row, with or without
\* body rows, the available width divided by the number of columns, minus 1.
C22_EvenOfColumns ==
    WidthsCall("even") =>
        LET cols == Len(result.table_data[1])
        IN  /\ result.ret.raised = ""
            /\ result.ret.scalar = Rat(pdf.epw - 10 * cols, 10 * cols)

\* With at least one body row 'even' is as claimed.
EvenOfColumnsWithBody ==
    (WidthsCall("even") /\ Len(result.table_data) > 1) =>
        LET cols == Len(result.table_data[1])
        IN  /\ result.ret.raised = ""
            /\ result.ret.scalar = Rat(pdf.epw - 10 * cols, 10 * cols)

TableCall == result.op = "create_table"
LogCells(part) ==
    {k \in DOMAIN pdf.log : pdf.log[k].event = "multi_cell" /\ pdf.log[k].part = part}
WidthDecisions == {k \in DOMAIN pdf.log : pdf.log[k].event = "get_col_widths"}

\* C23: create_table decides the column widths exactly once per table,
\* before any cell is rendered, and the header cell and every body cell of
\* one column are rendered with the same width.
C23_WidthsOnceAndUniform ==
    TableCall =>
        /\ Cardinality(WidthDecisions) = 1
        /\ \A d \in WidthDecisions :
              \A k \in DOMAIN pdf.log : pdf.log[k].event = "multi_cell" => d < k
        /\ \A h \in LogCells("header"), b \in LogCells("data") :
              pdf.log[h].col = pdf.log[b].col => pdf.log[h].w = pdf.log[b].w

\* A table of several columns of different widths and a body, rendered to
\* the end.
C23_Witness ==
    /\ TableCall
    /\ result.raised = ""
    /\ Cardinality(LogCells("data")) >= 4
    /\ \E h1, h2 \in LogCells("header") : pdf.log[h1].w # pdf.log[h2].w

----------------------------------------------------------------------------
(* C24 - C27 *)

\* The section an event of the document opens, "" for the other events.
SectionOf(e) ==
    IF "event" \notin DOMAIN e THEN ""
    ELSE IF e.event = "insert_toc_placeholder" THEN "table of contents"
    ELSE IF e.event = "output" THEN "write"
    ELSE IF e.event # "start_section" THEN ""
    ELSE IF e.name = "Project Overview: Summary of Project Details" THEN "project overview"
    ELSE IF e.name = "Data Dictionary: Summary of Variables" THEN "data dictionary"
    ELSE IF e.name = "Variable Details and Notes" THEN "variable details and notes"
    ELSE IF e.name = "Key Terms and Definitions" THEN "key terms and definitions"
    ELSE "other"
RECURSIVE SectionsIn(_)
SectionsIn(log) ==
    IF log = <<>> THEN <<>>
    ELSE (IF SectionOf(Head(log)) = "" THEN <<>> ELSE <<SectionOf(Head(log))>>)
         \o SectionsIn(Tail(log))
Created == pdf.status # "none"
Sections == IF Created THEN SectionsIn(pdf.content) ELSE <<>>
ClaimedSections ==
    <<"table of contents">>
    \o (IF projectoverview # "" THEN <<"project overview">> ELSE <<>>)
    \o <<"data dictionary", "variable details and notes">>
    \o (IF keyterms # "" THEN <<"key terms and definitions">> ELSE <<>>)
    \o <<"write">>
IsPrefix(a, b) == Len(a) <= Len(b) /\ a = SubSeq(b, 1, Len(a))
CodebookEnded == Created /\ pdf.status \in {"saved", "raised"}

DictionaryCall == result.op = "create_data_dictionary_table"
Blank(c) == c \in {StrCell(""), StrCell(" ")}

\* C25: create_data_dictionary_table returns one row per dataset column, in
\* dataset order, none for a schema entry that is no dataset column, and
\* every metadata cell the schema gives no value for (the field is absent,
\* or the column has no schema entry) is a blank string.
C25_DictionaryRowsAndBlanks ==
    DictionaryCall =>
        LET table == result.ret
        IN  /\ Len(table.rows) = Len(input_df.columns)
            /\ table.columns = <<"Variable Name", "Data Type", "Length",
                                 "Categorical", "Variable Label">>
            /\ \A i \in DOMAIN table.rows :
                  LET v == input_df.columns[i]
                  IN  /\ table.rows[i]["Variable Name"] = StrCell(v)
                      /\ \A k \in 1..4 :
                            LET field == <<"DataType", "length", "categorical", "label">>[k]
                                cell == table.rows[i][table.columns[k + 1]]
                            IN  IF v \in DOMAIN datastructure
                                   /\ field \in DOMAIN datastructure[v]
                                THEN cell = StrCell(datastructure[v][field])
                                ELSE Blank(cell)

\* As claimed for datasets all of whose columns the schema describes.
DictionaryOfDescribedColumns ==
    (DictionaryCall /\ ColumnSet(input_df) \subseteq DOMAIN datastructure) =>
        LET table == result.ret
        IN  /\ Len(table.rows) = Len(input_df.columns)
            /\ \A i \in DOMAIN table.rows :
                  LET v == input_df.columns[i]
                  IN  /\ table.rows[i]["Variable Name"] = StrCell(v)
                      /\ \A k \in 1..4 :
                            LET field == <<"DataType", "length", "categorical", "label">>[k]
                                cell == table.rows[i][table.columns[k + 1]]
                            IN  IF field \in DOMAIN datastructure[v]
                                THEN cell = StrCell(datastructure[v][field])
                                ELSE Blank(cell)

IsEvent(e, kind) == "event" \in DOMAIN e /\ e.event = kind
PageLines == {k \in DOMAIN pdf.content : IsEvent(pdf.content[k], "cell")
                                          /\ pdf.content[k].text = "Page {nb}"}
Unusable(path) == path = "" \/ path \notin Files \/ path \notin Images

\* C26: a footer image that cannot be used never aborts page rendering: with
\* the path empty, naming no existing file, or naming a file whose rendering
\* raises, the footer draws no image and still emits the page number line
\* followed by the footer text, and no error propagates.
C26_FooterWithoutImage ==
    (Created /\ Unusable(footer_image_path)) =>
        /\ \A k \in DOMAIN pdf.content :
              ~IsEvent(pdf.content[k], "image") /\ ~IsEvent(pdf.content[k], "raise")
        /\ \A k \in PageLines :
              /\ k + 1 \in DOMAIN pdf.content
              /\ IsEvent(pdf.content[k + 1], "cell")
              /\ pdf.content[k + 1].text = footer_text
              /\ pdf.content[k + 1].page_no = pdf.content[k].page_no
        \* every page that ended has its footer
        /\ \A k \in DOMAIN pdf.content :
              (IsEvent(pdf.content[k], "add_page") /\ pdf.content[k].page_no > 1) =>
                  /\ k - 2 \in PageLines
                  /\ pdf.content[k - 2].page_no = pdf.content[k].page_no - 1
        /\ pdf.status = "saved" => Len(pdf.content) - 2 \in PageLines

\* A codebook whose footer image exists and cannot be rendered, written.
C26_Witness ==
    /\ Created
    /\ footer_image_path = "broken.png"
    /\ pdf.status = "saved"
    /\ Cardinality(PageLines) >= 5

\* What add_var_summary has emitted in its loop: the tables and notes with
\* their variable, and the page breaks.
LoopKind(e) ==
    IF "summary" \in DOMAIN e THEN <<"summary", e.variable>>
    ELSE IF "frequencies" \in DOMAIN e THEN <<"frequencies", e.variable>>
    ELSE IF "notes" \in DOMAIN e THEN <<"notes", e.variable>>
    ELSE IF IsEvent(e, "add_page") THEN <<"page break", "">>
    ELSE <<>>
RECURSIVE LoopKinds(_)
LoopKinds(log) ==
    IF log = <<>> THEN <<>>
    ELSE (IF LoopKind(Head(log)) = <<>> THEN <<>> ELSE <<LoopKind(Head(log))>>)
         \o LoopKinds(Tail(log))
\* The events after the page break that ends the section's introduction.
DetailsSection ==
    CHOOSE k \in DOMAIN pdf.content :
        /\ IsEvent(pdf.content[k], "start_section")
        /\ pdf.content[k].name = "Variable Details and Notes"
IntroBreak ==
    CHOOSE k \in DOMAIN pdf.content :
        /\ k > DetailsSection
        /\ IsEvent(pdf.content[k], "add_page")
        /\ \A m \in (DetailsSection + 1)..(k - 1) : ~IsEvent(pdf.content[m], "add_page")
InLoop == Created /\ pdf.stage = "loop"
ClaimedFor(v) ==
    LET d == datastructure[v]
        dtype == IF "DataType" \in DOMAIN d THEN d["DataType"] ELSE ""
        category == "pyType" \in DOMAIN d /\ d["pyType"] = "category"
    IN  IF dtype \notin {"String", "Int", "Float"} THEN <<>>
        ELSE << <<"summary", v>> >>
             \o (IF category THEN << <<"frequencies", v>> >> ELSE <<>>)
             \o (IF "notes" \in DOMAIN d THEN << <<"notes", v>> >> ELSE <<>>)
             \o << <<"page break", "">> >>
RECURSIVE ClaimedForAll(_)
ClaimedForAll(variables) ==
    IF variables = <<>> THEN <<>>
    ELSE ClaimedFor(Head(variables)) \o ClaimedForAll(Tail(variables))
Finished == SubSeq(SchemaKeys, 1, Len(SchemaKeys) - Len(pdf.todo))
EmittedInLoop == LoopKinds(SubSeq(pdf.content, IntroBreak + 1, Len(pdf.content)))

----------------------------------------------------------------------------
(* C28 - C30 *)

NumericColumn == input_df.dtypes["ownershp"] = "float64"

\* C29: two rows are counted under the same code only if their stored
\* values are equal: every stored numeric value, with a fractional part
\* too, has the row whose Code is that value, and the rows of distinct
\* values are distinct.
C29_CodeIsStoredValue ==
    (FreqReturned /\ NumericColumn) =>
        /\ \A j \in Valid :
              \E i \in DOMAIN FreqRows :
                  ValueIs(input_df.rows[j]["ownershp"], FreqRows[i]["Code"])
        /\ \A j1, j2 \in Valid :
              input_df.rows[j1]["ownershp"] # input_df.rows[j2]["ownershp"] =>
                  \E i1, i2 \in DOMAIN FreqRows :
                      /\ i1 # i2
                      /\ FreqRows[i1]["Code"] = CodeOfValue(input_df.rows[j1]["ownershp"])
                      /\ FreqRows[i2]["Code"] = CodeOfValue(input_df.rows[j2]["ownershp"])

\* As claimed for whole-numbered values.
CodeIsStoredWholeValue ==
    (FreqReturned /\ NumericColumn
       /\ \A j \in Valid : ~input_df.rows[j]["ownershp"].half) =>
        \A j \in Valid :
            \E i \in DOMAIN FreqRows :
                ValueIs(input_df.rows[j]["ownershp"], FreqRows[i]["Code"])

DeclaresMap == "categories_dict" \in DOMAIN datastructure["ownershp"]

\* C30: with a declared code-to-label map the table has exactly 4 columns
\* without a population column and exactly 6 with one, whatever units the
\* primary key and the population column declare, so that add_var_summary
\* selects a width list of that length.
C30_FourOrSixColumns ==
    (FreqCall /\ DeclaresMap) =>
        /\ result.ret.raised = ""
        /\ Len(result.ret.table.columns) = IF result.pop_var = "" THEN 4 ELSE 6
        /\ CellWidths(Len(result.ret.table.columns)) # "even"

\* As claimed when the two declared units differ or no population column is
\* given.
FourOrSixColumnsOfDistinctUnits ==
    (FreqCall /\ DeclaresMap
       /\ (result.pop_var = ""
           \/ datastructure["huid"]["MeasureUnit"] # datastructure["numprec"]["MeasureUnit"])) =>
        /\ result.ret.raised = ""
        /\ Len(result.ret.table.columns) = IF result.pop_var = "" THEN 4 ELSE 6
        /\ CellWidths(Len(result.ret.table.columns)) # "even"

====
